---- MODULE Spec2Model ----
(***************************************************************************)
(* The file set of package files (src/files/set.go): per-slot indexes,     *)
(* the shared key -> record store with usage counts, the derived global    *)
(* view and the availability bitsets.                                      *)
(*                                                                         *)
(* Every map of the Set is keyed by file name (files by name and version)  *)
(* and no statement of set.go reads or writes an entry of a name other     *)
(* than the one of the record at hand, so the entries of different names   *)
(* evolve independently; the model follows one name through every          *)
(* sequence of calls.                                                      *)
(*                                                                         *)
(* Further parts: the connection-ID map (src/cid/cid.go), the block queues *)
(* (src/unnamed/part_003 and src/cmd/syncthing/model_puller.go), the       *)
(* puller (src/unnamed/part_002) and the Model's protocol callbacks        *)
(* (src/cmd/syncthing/model.go).  Each part has its own specification; the *)
(* variables of the other parts stay as they are while one part runs.      *)
(***************************************************************************)
EXTENDS Integers, Sequences, FiniteSets, TLC

\* ------------------------------------------------------------------ bounds
\* Slots 0..MaxSlot of the 64-entry remoteKey array are exercised.
MaxSlot == 1
\* Callers hand in versions 0..MaxVersion.
MaxVersion == 1
\* Callers hand in lists of at most MaxLen records.
MaxLen == 2
\* Usage counts explored up to MaxUsage.
MaxUsage == 2
\* Outstanding-request counts explored up to MaxOutstanding.
MaxOutstanding == 3
\* The block queue receives at most MaxAdds additions.
MaxAdds == 2
\* At most MaxPuts blocks are put on the queue of part_003.
MaxPuts == 3

\* --------------------------------------------------------- program constants
LocalName == "<local>"
LocalID == 0
MaxCid == 63
MaxInt32 == 2147483647

Names == {"a"}
Slots == 0..MaxSlot
\* The connection ids callers pass: the modelled slots and one beyond the array.
Cids == Slots \cup {MaxCid + 1}
VersionCap == MaxVersion + 1
\* The versions below 2^32 that the lists of the wrap-around runs carry: 2^32-1-MaxWrap..2^32-1.
MaxWrap == 1

FlagDeleted == {"deleted"}

\* scanner.File, as far as the set reads or writes it.
Live(n, v) == [Name |-> n, Version |-> v, Flags |-> {}, Size |-> 1, Blocks |-> <<"h">>,
              Suppressed |-> FALSE, Modified |-> 0]
Gone(n, v) == [Name |-> n, Version |-> v, Flags |-> FlagDeleted, Size |-> 0, Blocks |-> <<>>,
              Suppressed |-> FALSE, Modified |-> 0]
Records == {Live(n, v) : n \in Names, v \in 0..MaxVersion}
             \cup {Gone(n, v) : n \in Names, v \in 0..MaxVersion}
Lists == UNION {[1..k -> Records] : k \in 0..MaxLen}

zeroFile == [Name |-> "", Version |-> 0, Flags |-> {}, Size |-> 0, Blocks |-> <<>>,
             Suppressed |-> FALSE, Modified |-> 0]
zeroKey == [Name |-> "", Version |-> 0]

\* ------------------------------------------------------------ Go map helpers
EmptyMap == [x \in {} |-> 0]
MapPut(m, k, v) == [x \in DOMAIN m \cup {k} |-> IF x = k THEN v ELSE m[x]]
MapDel(m, k) == [x \in DOMAIN m \ {k} |-> m[x]]
\* m[k] on a Go map yields the zero value for a missing key.
KeyAt(m, n) == IF n \in DOMAIN m THEN m[n] ELSE zeroKey
FileAt(fm, k) == IF k \in DOMAIN fm THEN fm[k].File ELSE zeroFile
BitsAt(m, n) == IF n \in DOMAIN m THEN m[n] ELSE 0
Range(m) == {m[x] : x \in DOMAIN m}

\* ------------------------------------------------------------ bitset uint64
Bit(i) == 2 ^ i
HasBit(av, i) == (av \div Bit(i)) % 2 = 1
OrBit(av, i) == IF HasBit(av, i) THEN av ELSE av + Bit(i)

\* A uint32 is held as the 32-bit two's complement integer with the same bits:
\* 0..2^31-1 as themselves, 2^31..2^32-1 as the negative numbers -2^31..-1.
MaxUint32 == 0 - 1
\* v + 1 on a uint32 (wraps to 0 after 2^32-1).
Inc32(v) == IF v = MaxInt32 THEN (0 - MaxInt32) - 1 ELSE v + 1
\* a > b on uint32.
GtU(a, b) == IF (a < 0) = (b < 0) THEN a > b ELSE a < 0

VARIABLES
  files,               \* Set.files: key -> [Usage, File]
  remoteKey,           \* Set.remoteKey: slot -> (name -> key)
  allocated,           \* the slots whose remoteKey map has been made (is not nil)
  globalAvailability,  \* Set.globalAvailability: name -> bitset
  globalKey,           \* Set.globalKey: name -> key
  last,                \* the call that led here: operation, slot, list, outcome
  snap                 \* the Set before the last call, kept when that call was
                       \* SetRemote on a slot holding nothing

VARIABLES
  toCid,               \* cid.Map.toCid: name -> slot
  toName,              \* cid.Map.toName: slot i is toName[i + 1]
  cidLast,             \* the last call on the map: operation, name, result
  oustandingPerNode,   \* puller: node -> requests outstanding
  busyLast,            \* the last leastBusyNode call: bitset, map before, node returned
  disk,                \* the repository directory: path -> [exists, data]
  openFiles,           \* puller: [made, m: name -> openFile]
  inflight,            \* puller: the blocks requested from peers and not yet answered
  requestSlots,        \* puller: tokens in the requestSlots channel
  pullState,           \* puller: "new", "run", "panic" or "blocked"
  pullLast,            \* what the real path held at first, whether a copy or a fetch
                       \* failed (failed), whether a request came back in error (lost)
  queued,              \* blockQueue.queued of model_puller.go
  added,               \* the bqAdd values run has received from inbox, in order
  delivered,           \* the bqBlock values run has sent on outbox, in order
  blocks,              \* blockQueue.blocks of part_003
  getPc,               \* each consumer's place in get: "idle", "wait" (in
                       \* q.empty.Wait), "woken" (signalled, not yet holding the mutex)
  putSeq,              \* every block put, in order
  got,                 \* every block a get took, in order: who took it, whether
                       \* that get had waited
  getLog               \* per consumer in get: whether it has waited, whether a
                       \* put came after it began to wait

VARIABLES
  protoConn,           \* Model.protoConn and Model.rawConn: the nodes with an entry
  qwork,               \* the ingest holding fmut in queueNeededBlocks: the needed
                       \* files not yet looked at, the blocks not yet put
  qinfo,               \* for each block of the queue: whether a later enqueue has
                       \* begun since it was put (old), whether its file's record
                       \* was suppressed
  modelLast            \* the last call on the Model and its outcome

setVars == <<files, remoteKey, allocated, globalAvailability, globalKey>>
setAll == <<setVars, last, snap>>
cidVars == <<toCid, toName, cidLast>>
\* Everything but the file set.
busyVars == <<oustandingPerNode, busyLast>>
pullVars == <<disk, openFiles, inflight, requestSlots, pullState, pullLast>>
chanVars == <<queued, added, delivered>>
condVars == <<blocks, getPc, putSeq, got, getLog>>
VARIABLES
  changes,             \* Set.Changes(): the change counter of the Set, followed where
                       \* the broadcast loop runs
  bPc,                 \* broadcastIndexLoop: "sleep", "count" (before indexWg.Add),
                       \* "spawn" (before the loop over protoConn), "wait", "panic"
  lastChange,          \* broadcastIndexLoop: lastChange
  bIdx,                \* broadcastIndexLoop: the index read in this round
  wg,                  \* broadcastIndexLoop: the counter of indexWg
  sends,               \* the goroutines started to send an index to a node that
                       \* have not finished
  received             \* node -> the index messages delivered to it, in order

VARIABLES
  lockPc,              \* per flow of the Model: the lock operations it has done
  locksHeld            \* per flow: the locks it holds, in the order it took them

modelVars == <<protoConn, qwork, qinfo, modelLast>>
bcastRest == <<changes, bPc, lastChange, bIdx, wg, received>>
bcastVars == <<bcastRest, sends>>
lockVars == <<lockPc, locksHeld>>

\* A record on its way through fileFromFileInfo and back.
VARIABLES wireX, wireF, wireY, wirePc
wireVars == <<wireX, wireF, wireY, wirePc>>

VARIABLES
  rwRunning,           \* Model.rwRunning
  delete,              \* Model.delete
  delPc,               \* deleteLoop: "none" (not started), "recv" (at the range over
                       \* m.dq), "remove" (before os.Remove), "update" (before
                       \* updateLocal)
  delFile,             \* deleteLoop: file, the record taken from m.dq last
  dq                   \* Model.dq, unbuffered: the record a sender is blocked on
rwVars == <<rwRunning, delete, delPc, delFile, dq>>

afterLockVars == <<wireVars, rwVars>>
laterVars == <<lockVars, afterLockVars>>
extraVars == <<bcastVars, laterVars>>
restVars == <<cidVars, busyVars, pullVars, chanVars, condVars, modelVars, extraVars>>
vars == <<setAll, restVars>>

\* The Set as one value; panic marks a run-time panic raised inside an operation.
cur == [files |-> files, remoteKey |-> remoteKey, allocated |-> allocated,
        globalAvailability |-> globalAvailability, globalKey |-> globalKey,
        panic |-> FALSE]

keyFor(f) == [Name |-> f.Name, Version |-> f.Version]

\* newerThan with >= in place of >.
newerThanOrSame(a, b) == ~GtU(b.Version, a.Version)

newerThan(a, b) == GtU(a.Version, b.Version)

\* The slot check without its lower limit.
badCidAboveOnly(cid) == cid > MaxCid

\* The slot range AddRemote and SetRemote refuse.
badCid(cid) == cid < 1 \/ cid > MaxCid

\* The version the key of an incoming record gets in addRemote.
keyVersion(remFiles, fk) ==
  IF fk.Version = 0 THEN Inc32(KeyAt(remFiles, fk.Name).Version) ELSE fk.Version

\* The files entry for fk after the slot takes it.
keepOrCount(fm, fk, f) ==
  IF fk \notin DOMAIN fm
    THEN MapPut(fm, fk, [Usage |-> 1, File |-> f])
    ELSE [fm EXCEPT ![fk].Usage = @ + 1]

\* The "Update global view" switch of addRemote.
updateGlobal(st, cid, n, fk) ==
  LET ok == n \in DOMAIN st.globalKey
      gk == KeyAt(st.globalKey, n)
  IN  IF ok /\ fk = gk
        THEN [st EXCEPT !.globalAvailability =
                 MapPut(@, n, OrBit(BitsAt(st.globalAvailability, n), cid))]
        ELSE IF newerThan(fk, gk)
          THEN [st EXCEPT !.globalKey = MapPut(@, n, fk),
                          !.globalAvailability = MapPut(@, n, Bit(cid))]
          ELSE st

\* One iteration of the loop of addRemote.
addRemoteStep(st, cid, f) ==
  LET remFiles == st.remoteKey[cid]
      n == f.Name
      fk0 == keyFor(f)
  IN  IF n \in DOMAIN remFiles /\ remFiles[n] = fk0
        THEN st
        ELSE LET fk == [fk0 EXCEPT !.Version = keyVersion(remFiles, fk0)]
             IN  IF cid \notin st.allocated
                   THEN [st EXCEPT !.panic = TRUE]   \* assignment to entry in nil map
                   ELSE updateGlobal(
                          [st EXCEPT !.remoteKey[cid] = MapPut(@, n, fk),
                                     !.files = keepOrCount(@, fk, f)],
                          cid, n, fk)

RECURSIVE addRemote(_, _, _)
addRemote(st, cid, fs) ==
  IF fs = <<>> \/ st.panic
    THEN st
    ELSE addRemote(addRemoteStep(st, cid, Head(fs)), cid, Tail(fs))

\* First loop of setRemote: release the keys the slot holds.
releaseUsage(fm, held) ==
  [k \in {x \in DOMAIN fm : ~(x \in held /\ fm[x].Usage = 1)} |->
     IF k \in held /\ fm[k].Usage > 1
       THEN [fm[k] EXCEPT !.Usage = @ - 1]
       ELSE fm[k]]

\* Inner loop of the recalculation: slots i..MaxSlot, newest key nk, bits na.
RECURSIVE scanSlots(_, _, _, _, _)
scanSlots(rk, n, i, nk, na) ==
  IF i > MaxSlot
    THEN [nk |-> nk, na |-> na]
    ELSE IF n \in DOMAIN rk[i]
      THEN IF rk[i][n] = nk
             THEN scanSlots(rk, n, i + 1, nk, OrBit(na, i))
             ELSE IF newerThan(rk[i][n], nk)
               THEN scanSlots(rk, n, i + 1, rk[i][n], Bit(i))
               ELSE scanSlots(rk, n, i + 1, nk, na)
      ELSE scanSlots(rk, n, i + 1, nk, na)

\* The recalculation without its "Noone had the file" branch.
recalcGlobalKeepUnheld(st) ==
  LET res(n) == scanSlots(st.remoteKey, n, 0, zeroKey, 0)
  IN  [st EXCEPT !.globalKey = [n \in DOMAIN @ |-> IF res(n).na # 0 THEN res(n).nk ELSE @[n]],
                 !.globalAvailability =
                    [n \in DOMAIN @ |->
                       IF n \in DOMAIN st.globalKey /\ res(n).na # 0 THEN res(n).na ELSE @[n]]]

\* "Recalculate global based on all remaining remoteKey".
recalcGlobal(st) ==
  LET res(n) == scanSlots(st.remoteKey, n, 0, zeroKey, 0)
      kept == {n \in DOMAIN st.globalKey : res(n).na # 0}
  IN  [st EXCEPT !.globalKey = [n \in kept |-> res(n).nk],
                 !.globalAvailability =
                    [n \in kept \cup (DOMAIN st.globalAvailability \ DOMAIN st.globalKey) |->
                       IF n \in kept THEN res(n).na ELSE st.globalAvailability[n]]]

setRemote(st, cid, fs) ==
  LET st1 == [st EXCEPT !.files = releaseUsage(@, Range(st.remoteKey[cid])),
                        !.remoteKey[cid] = EmptyMap,
                        !.allocated = @ \cup {cid}]
  IN  addRemote(recalcGlobal(st1), cid, fs)

\* The record SetLocal appends for a local key missing from the new list.
tombstone(fm, ck) ==
  [FileAt(fm, ck) EXCEPT !.Flags = FlagDeleted, !.Blocks = <<>>, !.Size = 0,
                         !.Version = Inc32(@)]

ListNames(fs) == {fs[i].Name : i \in DOMAIN fs}

\* The local keys SetLocal turns into tombstones.
missingKeys(st, fs) == {ck \in Range(st.remoteKey[LocalID]) : ck.Name \notin ListNames(fs)}

\* Every order in which ranging over a map can visit the elements of S.
Orderings(S) == {s \in [1..Cardinality(S) -> S] : \A i, j \in DOMAIN s : i # j => s[i] # s[j]}

\* SetLocal for one order of the range over the local map.
setLocal(st, fs, order) ==
  setRemote(st, LocalID, fs \o [i \in DOMAIN order |-> tombstone(st.files, order[i])])

\* -------------------------------------------------------------- exploration
\* Results are explored while versions and usage counts stay within the bounds.
\* The versions explored: 0..VersionCap and the last MaxWrap + 1 values of a uint32.
InRange(v) == ~GtU(v, VersionCap) \/ ~GtU(MaxUint32 - MaxWrap, v)

Bounded(st) ==
  /\ \A k \in DOMAIN st.files :
        /\ InRange(k.Version)
        /\ st.files[k].Usage <= MaxUsage
        /\ InRange(st.files[k].File.Version)
  /\ \A i \in Slots : \A n \in DOMAIN st.remoteKey[i] :
        InRange(st.remoteKey[i][n].Version)

NoSnap == [on |-> FALSE, files |-> EmptyMap, globalKey |-> EmptyMap,
           globalAvailability |-> EmptyMap]

Called(op, cid, fs, panicked) ==
  [op |-> op, cid |-> cid, fs |-> fs, panicked |-> panicked, had |-> DOMAIN globalKey]

\* The call returns with the Set as st, or panics inside and leaves the Set as it was.
Install(st, op, cid, fs) ==
  /\ Bounded(st)
  /\ last' = Called(op, cid, fs, st.panic)
  /\ snap' = IF op = "SetRemote" /\ ~st.panic /\ remoteKey[cid] = EmptyMap
               THEN [on |-> TRUE, files |-> files, globalKey |-> globalKey,
                     globalAvailability |-> globalAvailability]
               ELSE NoSnap
  /\ UNCHANGED restVars
  /\ IF st.panic
       THEN UNCHANGED setVars
       ELSE /\ files' = st.files
            /\ remoteKey' = st.remoteKey
            /\ allocated' = st.allocated
            /\ globalAvailability' = st.globalAvailability
            /\ globalKey' = st.globalKey

\* The call panics on its slot check, before it reaches the Set.
Panic(op, cid, fs) ==
  /\ last' = Called(op, cid, fs, TRUE)
  /\ snap' = NoSnap
  /\ UNCHANGED setVars
  /\ UNCHANGED restVars

\* ------------------------------------------------------------- puller files
\* const slots = 8
slots == 8
\* A file of the model has NBlocks blocks, at offsets 1..NBlocks.
NBlocks == 2
Offsets == 1..NBlocks

\* FSNormalize(path.Join(dir, name)) and the same for the temporary name; the
\* temp namer yields a name no file of the repository has.
realPath(n) == <<"dir", n>>
tempPath(n) == <<"dir", "tmp", n>>
Paths == {realPath(n) : n \in Names} \cup {tempPath(n) : n \in Names}

\* What a path holds: data[o] is the block at offset o, <<>> a hole.
Absent == [exists |-> FALSE, data |-> <<>>]
Empty == [exists |-> TRUE, data |-> <<>>]
OldContent == [exists |-> TRUE, data |-> [o \in Offsets |-> <<"old", o>>]]
\* The global version: its first block is the old one, the others are new.
NewContent == [exists |-> TRUE,
               data |-> [o \in Offsets |-> IF o = 1 THEN <<"old", o>> ELSE <<"new", o>>]]

\* *os.File: the path it was opened on, and whether it is open.
NilFile == [path |-> <<>>, open |-> FALSE]
zeroOpenFile == [path |-> <<>>, temp |-> <<>>, availability |-> 0, file |-> NilFile,
                 err |-> FALSE, outstanding |-> 0, done |-> FALSE]


\* files.NewSet()
InitSet ==
  /\ files = EmptyMap
  /\ remoteKey = [i \in Slots |-> EmptyMap]
  /\ allocated = {}
  /\ globalAvailability = EmptyMap
  /\ globalKey = EmptyMap
  /\ last = [op |-> "NewSet", cid |-> 0, fs |-> <<>>, panicked |-> FALSE, had |-> {}]
  /\ snap = NoSnap

\* cid.NewMap()
InitCid ==
  /\ toCid = [n \in {LocalName} |-> LocalID]
  /\ toName = <<LocalName>>
  /\ cidLast = [op |-> "NewMap", name |-> LocalName, ret |-> LocalID, had |-> FALSE]

\* var oustandingPerNode = make(map[string]int)
InitBusy ==
  /\ oustandingPerNode = EmptyMap
  /\ busyLast = [op |-> "init", availability |-> 0, before |-> EmptyMap, selected |-> ""]

\* The directory before the puller runs: the real path holds the previous
\* content or nothing, no temporary file, the puller not started.  held: what the
\* real path holds; openFiles is declared without make, so it is nil unless code
\* outside the file makes it.
InitPullWith(held, made) ==
  /\ disk = [q \in Paths |-> IF q \in {realPath(n) : n \in Names} THEN held ELSE Absent]
  /\ openFiles = [made |-> made, m |-> EmptyMap]
  /\ inflight = {}
  /\ requestSlots = 0
  /\ pullState = "new"
  /\ pullLast = [was |-> held, failed |-> FALSE, lost |-> FALSE]

InitPull == InitPullWith(Absent, FALSE)

\* The goroutines that call get.
Consumers == {"c1", "c2"}

\* newBlockQueue() of model_puller.go
InitChan ==
  /\ queued = <<>>
  /\ added = <<>>
  /\ delivered = <<>>

\* newBlockQueue() of part_003; no consumer is in get.
InitCond ==
  /\ blocks = <<>>
  /\ getPc = [c \in Consumers |-> "idle"]
  /\ putSeq = <<>>
  /\ got = <<>>
  /\ getLog = [c \in Consumers |-> [waited |-> FALSE, putSince |-> FALSE]]

\* NewModel: no connection, nothing queued, fmut free.
NoWork == [active |-> FALSE, files |-> <<>>, puts |-> <<>>, suppressed |-> FALSE]
NoCall == [op |-> "NewModel", node |-> "", cid |-> 0, panicked |-> FALSE,
           name |-> "", offset |-> 0, had |-> FALSE, size |-> 0, suppressed |-> FALSE,
           err |-> "nil", read |-> FALSE, data |-> <<>>, skipped |-> FALSE,
           was |-> FALSE]
InitModel ==
  /\ protoConn = {}
  /\ qwork = NoWork
  /\ qinfo = <<>>
  /\ modelLast = NoCall

\* NewModel starts broadcastIndexLoop; nothing has been sent.
NoIndex == [gen |-> 0, idx |-> {}]
InitBcast ==
  /\ changes = 0
  /\ bPc = "sleep"
  /\ lastChange = 0
  /\ bIdx = NoIndex
  /\ wg = 0
  /\ sends = {}
  /\ received = [n \in {"p", "q"} |-> <<>>]

\* The lock operations of the Model's flows, in program order.
LockOps ==
  [ConnectionStats    |-> <<<<"Lock", "fmut">>, <<"RLock", "pmut">>,
                            <<"RUnlock", "pmut">>, <<"Unlock", "fmut">>>>,
   Close              |-> <<<<"Lock", "fmut">>, <<"Unlock", "fmut">>,
                            <<"Lock", "pmut">>, <<"Unlock", "pmut">>>>,
   broadcastIndexLoop |-> <<<<"Lock", "fmut">>, <<"Unlock", "fmut">>,
                            <<"RLock", "pmut">>, <<"RUnlock", "pmut">>>>,
   AddConnection      |-> <<<<"Lock", "pmut">>, <<"Unlock", "pmut">>,
                            <<"Lock", "fmut">>, <<"Unlock", "fmut">>>>,
   Index              |-> <<<<"Lock", "fmut">>, <<"Unlock", "fmut">>>>,
   requestGlobal      |-> <<<<"RLock", "pmut">>, <<"RUnlock", "pmut">>>>]
Flows == DOMAIN LockOps

\* No flow is inside a call.
InitLocks ==
  /\ lockPc = [f \in Flows |-> 0]
  /\ locksHeld = [f \in Flows |-> <<>>]

\* protocol.FileInfo{}: the zero record of the wire.
zeroInfo == [Name |-> "", Version |-> 0, Modified |-> 0, Flags |-> {}, Blocks |-> <<>>]

\* No record is being converted.
InitWire ==
  /\ wireX = zeroInfo
  /\ wireF = zeroFile
  /\ wireY = zeroInfo
  /\ wirePc = 0

\* NewModel: read-only, the delete loop not started, nothing offered on dq.
InitRW ==
  /\ rwRunning = FALSE
  /\ delete = FALSE
  /\ delPc = "none"
  /\ delFile = zeroFile
  /\ dq = <<>>

InitExtra == InitBcast /\ InitLocks /\ InitWire /\ InitRW

Init == InitSet /\ InitCid /\ InitBusy /\ InitPull /\ InitChan /\ InitCond /\ InitModel
          /\ InitExtra

\* A panic ends the process: no call follows it.
AddLocal ==
  /\ ~last.panicked
  /\ \E fs \in Lists : Install(addRemote(cur, LocalID, fs), "AddLocal", LocalID, fs)

SetLocal ==
  /\ ~last.panicked
  /\ \E fs \in Lists : \E order \in Orderings(missingKeys(cur, fs)) :
        Install(setLocal(cur, fs, order), "SetLocal", LocalID, fs)

SetLocalNoDelete ==
  /\ ~last.panicked
  /\ \E fs \in Lists : Install(setRemote(cur, LocalID, fs), "SetLocalNoDelete", LocalID, fs)

AddRemote ==
  /\ ~last.panicked
  /\ \E cid \in Cids : \E fs \in Lists :
        IF badCid(cid)
          THEN Panic("AddRemote", cid, fs)
          ELSE Install(addRemote(cur, cid, fs), "AddRemote", cid, fs)

SetRemote ==
  /\ ~last.panicked
  /\ \E cid \in Cids : \E fs \in Lists :
        IF badCid(cid)
          THEN Panic("SetRemote", cid, fs)
          ELSE Install(setRemote(cur, cid, fs), "SetRemote", cid, fs)

Next == AddLocal \/ SetLocal \/ SetLocalNoDelete \/ AddRemote \/ SetRemote

Spec == Init /\ [][Next]_vars

\* ------------------------------------------------------------------ queries
Need(cid) ==
  {FileAt(files, globalKey[name]) :
     name \in {n \in DOMAIN globalKey : newerThan(globalKey[n], KeyAt(remoteKey[cid], n))}}

Have(cid) == {FileAt(files, rk) : rk \in Range(remoteKey[cid])}

Global == {FileAt(files, rk) : rk \in Range(globalKey)}

Get(cid, file) == FileAt(files, KeyAt(remoteKey[cid], file))

Availability(name) == BitsAt(globalAvailability, name)

\* SetLocal calls alone, as a scanner without peers makes them.
NextLocal == SetLocal

SpecLocal == Init /\ [][NextLocal]_vars


\* ------------------------------------------------------- connection-ID map
\* The names callers pass: the local name, two peers and the empty string.
CidNames == {LocalName, "", "p", "q"}

\* The Map as one value.
curCm == [toCid |-> toCid, toName |-> toName]

\* The lowest index of toName holding "", 0 when there is none.
freeSlot(cm) ==
  LET free == {i \in 1..Len(cm.toName) : cm.toName[i] = ""}
  IN  IF free = {} THEN 0 ELSE CHOOSE i \in free : \A j \in free : i <= j

\* Map.Get: the Map afterwards and the slot returned.
cmGet(cm, name) ==
  IF name \in DOMAIN cm.toCid
    THEN [cm |-> cm, cid |-> cm.toCid[name]]
    ELSE IF freeSlot(cm) # 0
      THEN [cm |-> [toCid |-> MapPut(cm.toCid, name, freeSlot(cm) - 1),
                    toName |-> [cm.toName EXCEPT ![freeSlot(cm)] = name]],
            cid |-> freeSlot(cm) - 1]
      ELSE [cm |-> [toCid |-> MapPut(cm.toCid, name, Len(cm.toName)),
                    toName |-> Append(cm.toName, name)],
            cid |-> Len(cm.toName)]

\* Map.Name
cmName(cm, cid) == cm.toName[cid + 1]

\* Clear that forgets the name and leaves the slot taken.
cmClearKeepSlot(cm, name) ==
  IF name \in DOMAIN cm.toCid
    THEN [cm EXCEPT !.toCid = MapDel(@, name)]
    ELSE cm

\* Map.Clear
cmClear(cm, name) ==
  IF name \in DOMAIN cm.toCid
    THEN [toCid |-> MapDel(cm.toCid, name),
          toName |-> [cm.toName EXCEPT ![cm.toCid[name] + 1] = ""]]
    ELSE cm

CidGet ==
  \E name \in CidNames :
    LET r == cmGet(curCm, name)
    IN  /\ toCid' = r.cm.toCid
        /\ toName' = r.cm.toName
        /\ cidLast' = [op |-> "Get", name |-> name, ret |-> r.cid,
                       had |-> name \in DOMAIN toCid]
        /\ UNCHANGED <<setAll, modelVars, extraVars, busyVars, pullVars, chanVars, condVars>>

CidClear ==
  \E name \in CidNames :
    LET cm == cmClear(curCm, name)
    IN  /\ toCid' = cm.toCid
        /\ toName' = cm.toName
        /\ cidLast' = [op |-> "Clear", name |-> name, ret |-> LocalID,
                       had |-> name \in DOMAIN toCid]
        /\ UNCHANGED <<setAll, modelVars, extraVars, busyVars, pullVars, chanVars, condVars>>

NextCid == CidGet \/ CidClear

SpecCid == Init /\ [][NextCid]_vars

\* The map of a node that has met many peers: MaxPeers - 1 or MaxPeers of them
\* hold the slots after the local one.
MaxPeers == 63
PeerName(i) == "n" \o ToString(i)

InitCidFull ==
  /\ \E k \in {MaxPeers - 1, MaxPeers} :
        /\ toName = <<LocalName>> \o [i \in 1..k |-> PeerName(i)]
        /\ toCid = [n \in {LocalName} \cup {PeerName(i) : i \in 1..k} |->
                      IF n = LocalName THEN LocalID
                      ELSE CHOOSE i \in 1..k : PeerName(i) = n]
        /\ cidLast = [op |-> "Get", name |-> PeerName(k), ret |-> k, had |-> FALSE]
  /\ InitSet /\ InitBusy /\ InitPull /\ InitChan /\ InitCond /\ InitModel /\ InitExtra

SpecCidFull == InitCidFull /\ [][NextCid]_vars


\* ------------------------------------------------------ puller: peer choice
PullNodes == {"p", "q"}

\* The availability bitsets handed in: bits 0..2.
Bitsets == 0..(Bit(3) - 1)

\* availability&1<<cid != 0.  & and << share one precedence level and group to
\* the left, so this is ((availability & 1) << cid) != 0 on a uint64.
holdsBit(availability, cid) ==
  IF cid > MaxCid THEN FALSE ELSE ((availability % 2) * Bit(cid)) # 0

\* The loop of leastBusyNode over the nodes in the order the range visits them.
\* acc: the map (m.cm.Get allocates), low and selected so far.
RECURSIVE busyScan(_, _, _, _)
busyScan(acc, order, usage, availability) ==
  IF order = <<>>
    THEN acc
    ELSE LET node == Head(order)
             g == cmGet(acc.cm, node)
             pick == holdsBit(availability, g.cid) /\ usage[node] < acc.low
         IN  busyScan([cm |-> g.cm,
                       low |-> IF pick THEN usage[node] ELSE acc.low,
                       selected |-> IF pick THEN node ELSE acc.selected],
                      Tail(order), usage, availability)

\* leastBusyNode: the connection-ID map, the counts and the node returned.  low
\* starts above every count.
leastBusyNode(cm, usage, availability, order) ==
  LET r == busyScan([cm |-> cm, low |-> MaxInt32, selected |-> ""],
                    order, usage, availability)
  IN  [cm |-> r.cm,
       usage |-> MapPut(usage, r.selected,
                        (IF r.selected \in DOMAIN usage THEN usage[r.selected] ELSE 0) + 1),
       selected |-> r.selected]

LeastBusyNode ==
  \E availability \in Bitsets : \E order \in Orderings(DOMAIN oustandingPerNode) :
    LET r == leastBusyNode(curCm, oustandingPerNode, availability, order)
    IN  /\ \A n \in DOMAIN r.usage : r.usage[n] <= MaxOutstanding
        /\ oustandingPerNode' = r.usage
        /\ toCid' = r.cm.toCid
        /\ toName' = r.cm.toName
        /\ busyLast' = [op |-> "leastBusyNode", availability |-> availability,
                        before |-> oustandingPerNode, selected |-> r.selected]
        /\ UNCHANGED <<setAll, modelVars, extraVars, cidLast, pullVars, chanVars, condVars>>

\* The puller with its peers known to the connection-ID map (their indexes came
\* in, in either order) and any counts of requests outstanding.
InitBusyInputs ==
  /\ InitSet
  /\ \E order \in Orderings(PullNodes) :
        /\ toName = <<LocalName>> \o order
        /\ toCid = [n \in {LocalName} \cup PullNodes |->
                      IF n = LocalName THEN LocalID
                      ELSE CHOOSE i \in 1..Len(order) : order[i] = n]
  /\ cidLast = [op |-> "Get", name |-> toName[Len(toName)], ret |-> Len(toName) - 1,
                had |-> FALSE]
  /\ oustandingPerNode \in UNION {[S -> 0..MaxOutstanding] : S \in SUBSET PullNodes}
  /\ busyLast = [op |-> "init", availability |-> 0, before |-> EmptyMap, selected |-> ""]
  /\ InitPull /\ InitChan /\ InitCond /\ InitModel /\ InitExtra

NextBusy == LeastBusyNode

SpecBusy == InitBusyInputs /\ [][NextBusy]_vars


\* ------------------------------------------------------------------ puller
\* The puller's state as one value.
curPull == [disk |-> disk, openFiles |-> openFiles, inflight |-> inflight,
            requestSlots |-> requestSlots, state |-> pullState, failed |-> pullLast.failed,
            lost |-> pullLast.lost]

\* WriteAt of one block.
writeAt(content, o, d) ==
  [exists |-> TRUE,
   data |-> [i \in 1..(IF o > Len(content.data) THEN o ELSE Len(content.data)) |->
               IF i = o THEN d ELSE IF i <= Len(content.data) THEN content.data[i] ELSE <<>>]]

\* What the directory holds at a path; nothing at a path that names no file.
holdsAt(dk, path) == IF path \in DOMAIN dk THEN dk[path] ELSE Absent

\* The path opened for writing, were it the destination itself.
openTargetInPlace(of) == of.path

\* The path os.OpenFile creates and truncates for writing.
openTarget(of) == of.temp

\* openFiles[name] = of; a store into a nil map panics.
storeOpenFile(ps, name, of) ==
  IF ps.openFiles.made
    THEN [ps EXCEPT !.openFiles.m = MapPut(@, name, of)]
    ELSE [ps EXCEPT !.state = "panic"]

\* requestSlots <- true; with the channel full the sender waits.
giveSlot(ps) ==
  IF ps.requestSlots < slots
    THEN [ps EXCEPT !.requestSlots = @ + 1]
    ELSE [ps EXCEPT !.state = "blocked"]

\* The copy loop: read each block of copy from src, write it to of.file at the same
\* offset; the write of block failAt fails.  Stops at the first error.
RECURSIVE copyBlocks(_, _, _, _, _)
copyBlocks(dk, of, src, copy, failAt) ==
  IF copy = <<>>
    THEN [disk |-> dk, of |-> of]
    ELSE LET o == Head(copy)
         IN  IF o <= Len(dk[src].data) /\ of.file.open /\ o # failAt
               THEN copyBlocks([dk EXCEPT ![of.file.path] = writeAt(@, o, dk[src].data[o])],
                               [of EXCEPT !.err = FALSE], src, Tail(copy), failAt)
               ELSE [disk |-> dk, of |-> [of EXCEPT !.err = TRUE, !.file.open = FALSE]]

\* The work items the puller receives: blocks to copy and a block to fetch (0: none).
CopyLists == {<<>>, [i \in Offsets |-> i]} \cup {<<o>> : o \in Offsets}
BqItems == {[file |-> n, copy |-> c, block |-> k] :
              n \in Names, c \in CopyLists, k \in 0..NBlocks}

\* case b := <-blocks.  last: the item's terminal mark as the puller reads it;
\* openFails: os.OpenFile fails; failAt: the copy write that fails; asWritten:
\* openFiles[name].outstanding++ counts on the entry the map holds (else on of).
pullBlock(ps, b, lastMark, openFails, failAt, asWritten, availability) ==
  LET n == b.file
      ok == n \in DOMAIN ps.openFiles.m
      fresh == [zeroOpenFile EXCEPT !.path = realPath(n), !.temp = tempPath(n),
                                    !.availability = availability, !.done = lastMark]
      opened == [fresh EXCEPT !.file = [path |-> openTarget(fresh), open |-> TRUE]]
      of1 == IF ok THEN ps.openFiles.m[n] ELSE opened
      dk1 == IF ok THEN ps.disk ELSE [ps.disk EXCEPT ![openTarget(fresh)] = Empty]
      copied == copyBlocks(dk1, of1, of1.path, b.copy, failAt)
      entry == IF ok THEN ps.openFiles.m[n] ELSE zeroOpenFile
      counted == IF asWritten THEN [entry EXCEPT !.outstanding = @ + 1]
                 ELSE [copied.of EXCEPT !.outstanding = @ + 1]
  IN  IF ~ok /\ openFails
        THEN storeOpenFile([ps EXCEPT !.failed = TRUE], n, [fresh EXCEPT !.err = TRUE])
        ELSE IF b.copy # <<>> /\ ~holdsAt(dk1, of1.path).exists
          THEN storeOpenFile([ps EXCEPT !.disk = dk1, !.failed = TRUE], n,
                             [of1 EXCEPT !.err = TRUE, !.file.open = FALSE])
          ELSE IF copied.of.err
            THEN storeOpenFile([ps EXCEPT !.disk = copied.disk, !.failed = TRUE], n, copied.of)
            ELSE IF b.block > 0
              THEN storeOpenFile([ps EXCEPT !.disk = copied.disk,
                                            !.inflight = @ \cup {[file |-> n, offset |-> b.block]}],
                                 n, counted)
              ELSE giveSlot([ps EXCEPT !.disk = copied.disk])

\* case res := <-requestResults, for the answer to request r; good: the peer sent
\* the block (else an error and no data).  The requesting goroutine returns its
\* token as well; it waits while the channel is full.
pullResult(ps, r, good) ==
  LET n == r.file
      ok == n \in DOMAIN ps.openFiles.m
      of == ps.openFiles.m[n]
      ps1 == [ps EXCEPT !.inflight = @ \ {r},
                        !.requestSlots = IF @ < slots THEN @ + 1 ELSE @,
                        !.failed = @ \/ ~good,
                        !.lost = @ \/ ~good]
      written == IF of.file.open /\ good
                   THEN [ps1 EXCEPT !.disk[of.file.path] =
                                       writeAt(@, r.offset, NewContent.data[r.offset])]
                   ELSE ps1
      closed == IF of.done /\ of.outstanding - 1 = 0
                  THEN [written EXCEPT !.openFiles.m = MapDel(@, n)]
                  ELSE written
  IN  IF ~ok \/ of.err THEN ps1 ELSE giveSlot(closed)

InstallPull(ps) ==
  /\ disk' = ps.disk
  /\ openFiles' = ps.openFiles
  /\ inflight' = ps.inflight
  /\ requestSlots' = ps.requestSlots
  /\ pullState' = ps.state
  /\ pullLast' = [pullLast EXCEPT !.failed = ps.failed, !.lost = ps.lost]

\* puller(): fill requestSlots, start the loop.
PullerStart ==
  /\ pullState = "new"
  /\ InstallPull([curPull EXCEPT !.requestSlots = slots, !.state = "run"])
  /\ UNCHANGED <<setAll, modelVars, extraVars, cidVars, busyVars, chanVars, condVars>>

\* The filler takes a token and hands the puller the next work item.
PullBlock ==
  /\ pullState = "run"
  /\ requestSlots > 0
  /\ \E b \in BqItems : \E lastMark, openFails, asWritten \in BOOLEAN :
     \E failAt \in 0..NBlocks :
        InstallPull(pullBlock([curPull EXCEPT !.requestSlots = @ - 1], b, lastMark,
                              openFails, failAt, asWritten, Availability(b.file)))
  /\ UNCHANGED <<setAll, modelVars, extraVars, cidVars, busyVars, chanVars, condVars>>

\* A request is answered.  res.node is never set, so the count of "" goes down.
PullResult ==
  /\ pullState = "run"
  /\ \E r \in inflight : \E good \in BOOLEAN :
        InstallPull(pullResult(curPull, r, good))
  /\ BitsAt(oustandingPerNode, "") - 1 >= 0 - MaxOutstanding
  /\ oustandingPerNode' = MapPut(oustandingPerNode, "", BitsAt(oustandingPerNode, "") - 1)
  /\ UNCHANGED <<setAll, modelVars, extraVars, cidVars, busyLast, chanVars, condVars>>

\* The directory as the puller may find it.
InitPullInputs ==
  /\ InitSet /\ InitCid /\ InitBusy /\ InitChan /\ InitCond /\ InitModel /\ InitExtra
  /\ \E held \in {Absent, OldContent} : \E made \in BOOLEAN : InitPullWith(held, made)

NextPull == PullerStart \/ PullBlock \/ PullResult

SpecPull == InitPullInputs /\ [][NextPull]_vars


\* ------------------------------------- block queue of model_puller.go:136-201
QueueFiles == {"a", "b"}

\* A scanner.Block is named by its offset; 0 is the zero Block.
BlockLists == {<<>>, <<1>>, <<2>>, <<1, 2>>, <<2, 1>>}

\* bqAdd
BqAdds == {[file |-> f, have |-> h, need |-> nd] :
             f \in QueueFiles, h \in {<<>>, <<1>>}, nd \in BlockLists}

\* addBlock: the copy operation, then the needed blocks one by one.
addBlock(q, a) ==
  q \o <<[file |-> a.file, block |-> 0, copy |-> a.have]>>
    \o [i \in DOMAIN a.need |-> [file |-> a.file, block |-> a.need[i], copy |-> <<>>]]

\* put meets run's receive from inbox (either branch of run).
ChanPut ==
  /\ Len(added) < MaxAdds
  /\ \E a \in BqAdds :
        /\ queued' = addBlock(queued, a)
        /\ added' = Append(added, a)
  /\ UNCHANGED <<setAll, modelVars, extraVars, cidVars, busyVars, pullVars, condVars, delivered>>

\* run's send of queued[0] on outbox meets a receiver.
ChanGet ==
  /\ queued # <<>>
  /\ delivered' = Append(delivered, Head(queued))
  /\ queued' = Tail(queued)
  /\ UNCHANGED <<setAll, modelVars, extraVars, cidVars, busyVars, pullVars, condVars, added>>

NextChan == ChanPut \/ ChanGet

SpecChan == Init /\ [][NextChan]_vars


\* ----------------------------------------------- block queue of part_003
\* queuedBlock
QueuedBlocks == {[file |-> f, offset |-> o, size |-> 1, last |-> l] :
                   f \in Names, o \in 0..1, l \in BOOLEAN}

\* The queue and its condition variable as one value.
curQ == [blocks |-> blocks, pc |-> getPc]

\* contains that never finds the file.
bqContainsNever(q, f) == FALSE

\* contains
bqContains(q, f) == \E i \in DOMAIN q.blocks : q.blocks[i].file = f

\* put without the Signal.
bqPutNoSignal(q, b) == {[q EXCEPT !.blocks = Append(@, b)]}

\* put: append, then q.empty.Signal() wakes one of the goroutines in Wait, if
\* there is one.  The set of possible outcomes.
bqPut(q, b) ==
  LET waiting == {c \in DOMAIN q.pc : q.pc[c] = "wait"}
  IN  IF waiting = {}
        THEN {[q EXCEPT !.blocks = Append(@, b)]}
        ELSE {[q EXCEPT !.blocks = Append(@, b), !.pc[c] = "woken"] : c \in waiting}

\* get, from taking the mutex (on entry, or on return from Wait) to releasing
\* it: Wait again while the queue is empty, else take the first block and return.
bqGet(q, c) ==
  IF Len(q.blocks) = 0
    THEN [q EXCEPT !.pc[c] = "wait"]
    ELSE [q EXCEPT !.blocks = Tail(@), !.pc[c] = "idle"]

\* The histories after consumer c held the mutex in get with the queue as q.
GetLogged(q, c) ==
  /\ got' = IF Len(q.blocks) = 0 THEN got
            ELSE Append(got, [by |-> c, block |-> q.blocks[1], waited |-> getLog[c].waited])
  /\ getLog' = [getLog EXCEPT ![c] = IF Len(q.blocks) = 0
                                       THEN [@ EXCEPT !.waited = TRUE]
                                       ELSE [waited |-> FALSE, putSince |-> FALSE]]

BqPut ==
  /\ Len(putSeq) < MaxPuts
  /\ \E b \in QueuedBlocks : \E q \in bqPut(curQ, b) :
        /\ blocks' = q.blocks
        /\ getPc' = q.pc
        /\ putSeq' = Append(putSeq, b)
  /\ getLog' = [c \in Consumers |->
                  IF getPc[c] # "idle" THEN [getLog[c] EXCEPT !.putSince = TRUE] ELSE getLog[c]]
  /\ UNCHANGED <<setAll, modelVars, extraVars, cidVars, busyVars, pullVars, chanVars, got>>

\* A consumer calls get and takes the mutex.
BqGetEnter(c) ==
  /\ getPc[c] = "idle"
  /\ blocks' = bqGet(curQ, c).blocks
  /\ getPc' = bqGet(curQ, c).pc
  /\ GetLogged(curQ, c)
  /\ UNCHANGED <<setAll, modelVars, extraVars, cidVars, busyVars, pullVars, chanVars, putSeq>>

\* A signalled consumer takes the mutex again and tests the queue again.
BqGetWake(c) ==
  /\ getPc[c] = "woken"
  /\ blocks' = bqGet(curQ, c).blocks
  /\ getPc' = bqGet(curQ, c).pc
  /\ GetLogged(curQ, c)
  /\ UNCHANGED <<setAll, modelVars, extraVars, cidVars, busyVars, pullVars, chanVars, putSeq>>

NextCond == BqPut \/ (\E c \in Consumers : BqGetEnter(c)) \/ (\E c \in Consumers : BqGetWake(c))

SpecCond == Init /\ [][NextCond]_vars

\* A goroutine that Signal has made runnable runs and gets the mutex; nothing
\* obliges a caller to put or to call get.
SpecCondFair == SpecCond /\ \A c \in Consumers : WF_vars(BqGetWake(c))

\* ------------------------------------------------- Model (cmd/syncthing/model.go)
\* The nodes whose connections call the Model.
ModelNodes == {"p", "q"}
\* The puller that takes blocks from the Model's queue.  Every get takes the
\* head of the queue under the queue's mutex, so one puller reaches every
\* content of the queue that several would.
ModelConsumers == {"c1"}
\* A node is connected again only while fewer than MaxMsgs index messages
\* have been sent to it.
MaxMsgs == 1

\* The goroutine of AddConnection before it has read the index.
InitialSend(node) == [node |-> node, kind |-> "initial", read |-> FALSE, gen |-> 0, idx |-> {}]
\* Index messages carry at most MaxWireLen records.
MaxWireLen == 1
\* Request is called with offsets 0..MaxOffset and size 1.
MaxOffset == 1

\* protocol.BlockInfo
B1 == [Size |-> 1, Hash |-> "h1"]
B2 == [Size |-> 2, Hash |-> "h2"]
FlagInvalid == {"invalid"}

\* protocol.FileInfo as a peer sends it: a version its sender has assigned,
\* two blocks, with or without the invalid flag.
WireRecords ==
  {[Name |-> n, Version |-> v, Flags |-> fl, Modified |-> 1, Blocks |-> <<B1, B2>>] :
     n \in Names, v \in 1..MaxVersion, fl \in {{}, FlagInvalid}}
WireLists == UNION {[1..k -> WireRecords] : k \in 0..MaxWireLen}

\* The sum of the sizes of the first k blocks.
RECURSIVE SizeSum(_, _)
SizeSum(bs, k) == IF k = 0 THEN 0 ELSE SizeSum(bs, k - 1) + bs[k].Size

fileFromFileInfo(f) ==
  [Name |-> f.Name,
   Version |-> f.Version,
   Modified |-> f.Modified,
   Flags |-> f.Flags \ FlagInvalid,
   Size |-> SizeSum(f.Blocks, Len(f.Blocks)),
   Blocks |-> [i \in DOMAIN f.Blocks |->
                 [Offset |-> SizeSum(f.Blocks, i - 1), Size |-> f.Blocks[i].Size,
                  Hash |-> f.Blocks[i].Hash]],
   Suppressed |-> (f.Flags \cap FlagInvalid) # {}]

\* The conversion loop at the head of Index, IndexUpdate and SeedLocal.
fromWire(ws) == [i \in DOMAIN ws |-> fileFromFileInfo(ws[i])]

\* Set.Need on the Set st.
NeedOf(st, cid) ==
  {FileAt(st.files, st.globalKey[name]) :
     name \in {n \in DOMAIN st.globalKey :
                 newerThan(st.globalKey[n], KeyAt(st.remoteKey[cid], n))}}

\* Set.GetGlobal: the record of the global key of the name.
GetGlobal(st, name) == FileAt(st.files, KeyAt(st.globalKey, name))

\* The elements of s at the indexes in S, in order.
RECURSIVE Pick(_, _, _)
Pick(s, S, i) ==
  IF i > Len(s) THEN <<>>
  ELSE (IF i \in S THEN <<s[i]>> ELSE <<>>) \o Pick(s, S, i + 1)

\* scanner.BlockDiff(src, tgt): the lists it may return as need, some of the
\* blocks of tgt in order.
BlockDiffNeeds(src, tgt) == {Pick(tgt, S, 1) : S \in SUBSET DOMAIN tgt}

\* The blocks queueNeededBlocks puts for one file.
blocksToPut(name, need) ==
  [i \in DOMAIN need |->
     [file |-> name, offset |-> SizeSum(need, i - 1), size |-> need[i].Size,
      last |-> i = Len(need)]]

\* The Set after a call of the Model; versions and usage counts within the bounds.
ModelInstall(st) ==
  /\ Bounded(st)
  /\ files' = st.files
  /\ remoteKey' = st.remoteKey
  /\ allocated' = st.allocated
  /\ globalAvailability' = st.globalAvailability
  /\ globalKey' = st.globalKey

ModelCalled(op) == [NoCall EXCEPT !.op = op]

\* Index and IndexUpdate up to the call of queueNeededBlocks: fmut is taken,
\* the node gets its slot, the Set takes the list, and Need(LocalID) is read for
\* the loop.  fmut stays held while the loop has work.  A slot beyond MaxSlot is
\* outside the part of the array that is modelled.
Ingest(op, node, ws) ==
  LET r == cmGet(curCm, node)
      st == IF op = "Index" THEN setRemote(cur, r.cid, fromWire(ws))
            ELSE addRemote(cur, r.cid, fromWire(ws))
      dies == badCid(r.cid) \/ st.panic
  IN  /\ ~modelLast.panicked
      /\ ~qwork.active
      /\ r.cid \in Slots
      /\ toCid' = r.cm.toCid
      /\ toName' = r.cm.toName
      /\ modelLast' = [ModelCalled(op) EXCEPT !.panicked = dies]
      /\ IF dies
           THEN UNCHANGED <<setVars, qwork>>
           ELSE /\ ModelInstall(st)
                /\ \E order \in Orderings(NeedOf(st, LocalID)) :
                      qwork' = [active |-> order # <<>>, files |-> order, puts |-> <<>>,
                                suppressed |-> FALSE]
      /\ UNCHANGED <<last, snap, extraVars, cidLast, busyVars, pullVars, chanVars, condVars,
                     protoConn, qinfo>>

Index == \E node \in ModelNodes : \E ws \in WireLists : Ingest("Index", node, ws)

IndexUpdate == \E node \in ModelNodes : \E ws \in WireLists : Ingest("IndexUpdate", node, ws)

\* queueNeededBlocks, one turn of the outer loop up to the first put: the
\* contains test and, when it fails, the block diff.
QueueContains ==
  /\ qwork.active
  /\ qwork.puts = <<>>
  /\ qwork.files # <<>>
  /\ LET f == Head(qwork.files)
         gf == GetGlobal(cur, f.Name)
         rest == Tail(qwork.files)
     IN  IF bqContains(curQ, f.Name)
           THEN /\ qwork' = [qwork EXCEPT !.files = rest, !.active = rest # <<>>]
                /\ modelLast' = [ModelCalled("contains") EXCEPT !.name = f.Name,
                                                                !.skipped = TRUE]
           ELSE /\ \E need \in BlockDiffNeeds(f.Blocks, gf.Blocks) :
                      qwork' = [qwork EXCEPT !.files = rest,
                                             !.puts = blocksToPut(f.Name, need),
                                             !.suppressed = f.Suppressed,
                                             !.active = ~(rest = <<>> /\ need = <<>>)]
                /\ modelLast' = [ModelCalled("contains") EXCEPT !.name = f.Name]
  /\ qinfo' = IF bqContains(curQ, Head(qwork.files).Name)
               THEN qinfo
               ELSE [i \in DOMAIN qinfo |-> [qinfo[i] EXCEPT !.old = TRUE]]
  /\ UNCHANGED <<setAll, extraVars, cidVars, busyVars, pullVars, chanVars, condVars, protoConn>>

\* queueNeededBlocks, one m.bq.put of the inner loop; fmut is released after
\* the last put of the last file.
QueuePut ==
  /\ qwork.active
  /\ qwork.puts # <<>>
  /\ \E q \in bqPut(curQ, Head(qwork.puts)) :
        /\ blocks' = q.blocks
        /\ getPc' = q.pc
  /\ qinfo' = Append(qinfo, [old |-> FALSE, suppressed |-> qwork.suppressed])
  /\ qwork' = [qwork EXCEPT !.puts = Tail(@),
                            !.active = ~(Tail(qwork.puts) = <<>> /\ qwork.files = <<>>)]
  /\ UNCHANGED <<setAll, extraVars, cidVars, busyVars, pullVars, chanVars, putSeq, got, getLog,
                 protoConn, modelLast>>

\* A puller holds the queue's mutex in get, on entry or after a wake-up.
ModelGet(c) ==
  /\ getPc[c] \in {"idle", "woken"}
  /\ blocks' = bqGet(curQ, c).blocks
  /\ getPc' = bqGet(curQ, c).pc
  /\ qinfo' = IF blocks = <<>> THEN qinfo ELSE Tail(qinfo)
  /\ UNCHANGED <<setAll, extraVars, cidVars, busyVars, pullVars, chanVars, putSeq, got, getLog,
                 protoConn, qwork, modelLast>>

\* Close: under fmut the node's slot is looked up (and made when the node has
\* none), reset in the Set and cleared; under pmut the connection entries go.
Close ==
  \E node \in ModelNodes \cup {LocalName} :
    LET r == cmGet(curCm, node)
        st == setRemote(cur, r.cid, <<>>)
        cm == cmClear(r.cm, node)
        dies == badCid(r.cid)
    IN  /\ ~modelLast.panicked
        /\ ~qwork.active
        /\ r.cid \in Slots
        /\ modelLast' = [ModelCalled("Close") EXCEPT
                           !.node = node, !.cid = r.cid, !.panicked = dies,
                           !.had = remoteKey[r.cid] # EmptyMap,
                           !.was = node \in protoConn]
        /\ IF dies
             THEN /\ toCid' = r.cm.toCid
                  /\ toName' = r.cm.toName
                  /\ UNCHANGED <<setVars, protoConn>>
             ELSE /\ ModelInstall(st)
                  /\ toCid' = cm.toCid
                  /\ toName' = cm.toName
                  /\ protoConn' = protoConn \ {node}
        /\ UNCHANGED <<last, snap, extraVars, cidLast, busyVars, pullVars, chanVars, condVars,
                       qwork, qinfo>>

\* ConnectedTo
ConnectedTo(nodeID) == nodeID \in protoConn

\* AddConnection: the map entries under pmut, then the goroutine that will
\* read the local index and send it to the node.
AddConnection ==
  \E node \in ModelNodes :
    /\ ~modelLast.panicked
    /\ Len(received[node]) + Cardinality({s \in sends : s.node = node}) < MaxMsgs
    /\ protoConn' = protoConn \cup {node}
    /\ sends' = sends \cup {InitialSend(node)}
    /\ modelLast' = ModelCalled("AddConnection")
    /\ UNCHANGED <<setAll, bcastRest, laterVars, cidVars, busyVars, pullVars, chanVars,
                   condVars, qwork, qinfo>>

\* Request after the lookup of lf: the two refusals, then os.Open on the path
\* of the name and ReadAt of one byte at the offset.  held: what the path holds.
request(lf, held, offset) ==
  IF offset > lf.Size
    THEN [err |-> "ErrNoSuchFile", read |-> FALSE, data |-> <<>>]
    ELSE IF lf.Suppressed
      THEN [err |-> "ErrInvalid", read |-> FALSE, data |-> <<>>]
      ELSE IF ~held.exists
        THEN [err |-> "open", read |-> TRUE, data |-> <<>>]
        ELSE IF offset + 1 \in DOMAIN held.data
          THEN [err |-> "nil", read |-> TRUE, data |-> <<held.data[offset + 1]>>]
          ELSE [err |-> "EOF", read |-> TRUE, data |-> <<>>]

Request ==
  \E name \in Names : \E offset \in 0..MaxOffset :
    LET lf == Get(LocalID, name)
        res == request(lf, disk[realPath(name)], offset)
    IN  /\ ~modelLast.panicked
        /\ ~qwork.active
        /\ modelLast' = [ModelCalled("Request") EXCEPT
                           !.name = name, !.offset = offset,
                           !.had = name \in DOMAIN remoteKey[LocalID],
                           !.size = lf.Size, !.suppressed = lf.Suppressed,
                           !.err = res.err, !.read = res.read, !.data = res.data]
        /\ UNCHANGED <<setAll, extraVars, cidVars, busyVars, pullVars, chanVars, condVars,
                       protoConn, qwork, qinfo>>

\* ReplaceLocal with the records the scanner hands in.
ReplaceLocal ==
  \E ws \in WireLists : \E order \in Orderings(missingKeys(cur, fromWire(ws))) :
    /\ ~modelLast.panicked
    /\ ~qwork.active
    /\ ModelInstall(setLocal(cur, fromWire(ws), order))
    /\ modelLast' = ModelCalled("ReplaceLocal")
    /\ UNCHANGED <<last, snap, extraVars, cidVars, busyVars, pullVars, chanVars, condVars,
                   protoConn, qwork, qinfo>>

\* The repository directory holds the file or not when the Model starts.
InitModelInputs ==
  /\ InitSet /\ InitCid /\ InitBusy /\ InitChan /\ InitCond /\ InitModel /\ InitExtra
  /\ \E held \in {Absent, OldContent} : InitPullWith(held, FALSE)

NextModel ==
  \/ Index \/ IndexUpdate \/ QueueContains \/ QueuePut
  \/ (\E c \in ModelConsumers : ModelGet(c))
  \/ Close \/ AddConnection \/ Request \/ ReplaceLocal

SpecModel == InitModelInputs /\ [][NextModel]_vars

\* --------------------------------------- index broadcast (model.go:407-510)
\* The local index changes at most MaxChanges times.
MaxChanges == 1

\* fileInfoFromFile without the invalid flag.
fileInfoFromFileNoFlag(f) ==
  [Name |-> f.Name, Version |-> f.Version, Modified |-> f.Modified, Flags |-> f.Flags,
   Blocks |-> [i \in DOMAIN f.Blocks |->
                 [Size |-> f.Blocks[i].Size, Hash |-> f.Blocks[i].Hash]]]

fileInfoFromFile(f) ==
  [Name |-> f.Name, Version |-> f.Version, Modified |-> f.Modified,
   Flags |-> IF f.Suppressed THEN f.Flags \cup FlagInvalid ELSE f.Flags,
   Blocks |-> [i \in DOMAIN f.Blocks |->
                 [Size |-> f.Blocks[i].Size, Hash |-> f.Blocks[i].Hash]]]

\* The local index in protocol form, as ProtocolIndex and the loop build it.
localIndex == {fileInfoFromFile(f) : f \in Have(LocalID)}

\* The scanner hands one changed file to updateLocal; the Set's change counter
\* moves when the Set changes.  AddLocal on a local slot that no SetLocal has
\* made panics (assignment to entry in nil map).
UpdateLocal ==
  \E w \in WireRecords :
    LET st == addRemote(cur, LocalID, <<fileFromFileInfo(w)>>)
    IN  /\ ~modelLast.panicked
        /\ ~qwork.active
        /\ changes < MaxChanges
        /\ IF st.panic THEN UNCHANGED setVars ELSE ModelInstall(st)
        /\ changes' = IF st.panic \/ st = cur THEN changes ELSE changes + 1
        /\ modelLast' = [ModelCalled("updateLocal") EXCEPT !.panicked = st.panic]
        /\ UNCHANGED <<last, snap, cidVars, busyVars, pullVars, chanVars, condVars,
                       protoConn, qwork, qinfo, laterVars,
                       bPc, lastChange, bIdx, wg, sends, received>>

\* The goroutine of AddConnection runs ProtocolIndex: the local index is read
\* under fmut.
InitialRead ==
  \E s \in sends :
    /\ s.kind = "initial"
    /\ ~s.read
    /\ ~modelLast.panicked
    /\ ~qwork.active
    /\ sends' = (sends \ {s}) \cup {[s EXCEPT !.read = TRUE, !.gen = changes,
                                              !.idx = localIndex]}
    /\ UNCHANGED <<setAll, cidVars, busyVars, pullVars, chanVars, condVars, modelVars,
                   laterVars, bcastRest>>

\* Top of the loop, after the sleep: under fmut the counter is compared and,
\* when it has moved, the local index is read.
BcastCheck ==
  /\ bPc = "sleep"
  /\ ~modelLast.panicked
  /\ ~qwork.active
  /\ changes # lastChange
  /\ lastChange' = changes
  /\ bIdx' = [gen |-> changes, idx |-> localIndex]
  /\ bPc' = "count"
  /\ UNCHANGED <<setAll, cidVars, busyVars, pullVars, chanVars, condVars, modelVars,
                 laterVars, changes, wg, sends, received>>

\* A new indexWg for the round and indexWg.Add(len(m.protoConn)), outside
\* pmut.
BcastCount ==
  /\ bPc = "count"
  /\ ~modelLast.panicked
  /\ wg' = Cardinality(protoConn)
  /\ bPc' = "spawn"
  /\ UNCHANGED <<setAll, cidVars, busyVars, pullVars, chanVars, condVars, modelVars,
                 laterVars, changes, lastChange, bIdx, sends, received>>

\* The loop over protoConn under pmut.RLock: one goroutine per node.
BcastSpawn ==
  /\ bPc = "spawn"
  /\ ~modelLast.panicked
  /\ sends' = sends \cup {[node |-> n, kind |-> "loop", read |-> TRUE,
                           gen |-> bIdx.gen, idx |-> bIdx.idx] : n \in protoConn}
  /\ bPc' = "wait"
  /\ UNCHANGED <<setAll, cidVars, busyVars, pullVars, chanVars, condVars, modelVars,
                 laterVars, changes, lastChange, bIdx, wg, received>>

\* indexWg.Done() of a goroutine of the loop panics when the counter of its
\* round's WaitGroup goes negative; the WaitGroup of a round that Wait has
\* left stands at zero.
DonePanics(s) == s.kind = "loop" /\ (wg = 0 \/ s.gen # bIdx.gen \/ bPc = "sleep")

\* A goroutine's node.Index returns: the node has the message; a goroutine of
\* the loop then calls indexWg.Done().
Deliver ==
  \E s \in sends :
    /\ s.read
    /\ ~modelLast.panicked
    /\ sends' = sends \ {s}
    /\ received' = [received EXCEPT ![s.node] =
                      Append(@, [kind |-> s.kind, gen |-> s.gen, idx |-> s.idx])]
    /\ wg' = IF s.kind = "loop" /\ ~DonePanics(s) THEN wg - 1 ELSE wg
    /\ bPc' = IF DonePanics(s) THEN "panic" ELSE bPc
    /\ modelLast' = [modelLast EXCEPT !.panicked = @ \/ DonePanics(s)]
    /\ UNCHANGED <<setAll, cidVars, busyVars, pullVars, chanVars, condVars,
                   protoConn, qwork, qinfo, laterVars, changes, lastChange, bIdx>>

\* indexWg.Wait() returns when the counter is zero.
BcastWait ==
  /\ bPc = "wait"
  /\ ~modelLast.panicked
  /\ wg = 0
  /\ bPc' = "sleep"
  /\ UNCHANGED <<setAll, cidVars, busyVars, pullVars, chanVars, condVars, modelVars,
                 laterVars, changes, lastChange, bIdx, wg, sends, received>>

NextBcast ==
  \/ AddConnection \/ Close \/ UpdateLocal \/ InitialRead
  \/ BcastCheck \/ BcastCount \/ BcastSpawn \/ Deliver \/ BcastWait

\* The Model after the scan at startup has handed in an empty repository.
InitBcastInputs ==
  /\ files = EmptyMap
  /\ remoteKey = [i \in Slots |-> EmptyMap]
  /\ allocated = {LocalID}
  /\ globalAvailability = EmptyMap
  /\ globalKey = EmptyMap
  /\ last = [op |-> "SetLocal", cid |-> 0, fs |-> <<>>, panicked |-> FALSE, had |-> {}]
  /\ snap = NoSnap
  /\ InitCid /\ InitBusy /\ InitPull /\ InitChan /\ InitCond /\ InitModel
  /\ InitExtra

SpecBcast == InitBcastInputs /\ [][NextBcast]_vars

\* ------------------------------------------------ locks of the Model (fmut, pmut)
\* The next lock operation of flow f.
NextOp(f) == LockOps[f][lockPc[f] + 1]

\* sync.Mutex and sync.RWMutex: Lock needs the lock free, RLock needs it free
\* of a writer.
CanTake(f, op) ==
  \A g \in Flows \ {f} : \A i \in DOMAIN locksHeld[g] :
     locksHeld[g][i][2] = op[2] => (op[1] = "RLock" /\ locksHeld[g][i][1] = "RLock")

\* A flow takes its next lock.
Acquire ==
  \E f \in Flows :
    /\ NextOp(f)[1] \in {"Lock", "RLock"}
    /\ CanTake(f, NextOp(f))
    /\ locksHeld' = [locksHeld EXCEPT ![f] = Append(@, NextOp(f))]
    /\ lockPc' = [lockPc EXCEPT ![f] = @ + 1]
    /\ UNCHANGED <<setAll, cidVars, busyVars, pullVars, chanVars, condVars, modelVars,
                   bcastVars, afterLockVars>>

\* A flow releases the lock it took last; after its last operation the call
\* returns and the flow may be called again.
Release ==
  \E f \in Flows :
    /\ NextOp(f)[1] \in {"Unlock", "RUnlock"}
    /\ locksHeld' = [locksHeld EXCEPT ![f] = SelectSeq(@, LAMBDA h : h[2] # NextOp(f)[2])]
    /\ lockPc' = [lockPc EXCEPT ![f] = IF @ + 1 = Len(LockOps[f]) THEN 0 ELSE @ + 1]
    /\ UNCHANGED <<setAll, cidVars, busyVars, pullVars, chanVars, condVars, modelVars,
                   bcastVars, afterLockVars>>

NextLocks == Acquire \/ Release

SpecLocks == Init /\ [][NextLocks]_vars

\* ------------------------------------- record conversion (model.go:527-568)
\* The blocks of a wire record: at most MaxBlocks of them.
MaxBlocks == 2
\* A flag bit other than the deleted and the invalid bit (the mode bits).
FlagMode == {"mode"}
WireBlocks == UNION {[1..k -> {B1, B2}] : k \in 0..MaxBlocks}

\* Every protocol.FileInfo within the bounds: any flags, any blocks.
WireInputs ==
  {[Name |-> n, Version |-> v, Modified |-> t, Flags |-> fl, Blocks |-> bs] :
     n \in Names, v \in 0..MaxVersion, t \in 0..1,
     fl \in SUBSET (FlagDeleted \cup FlagInvalid \cup FlagMode), bs \in WireBlocks}

\* A record arrives from the wire and is converted.
ToFile ==
  /\ wirePc = 1
  /\ wireF' = fileFromFileInfo(wireX)
  /\ wirePc' = 2
  /\ UNCHANGED <<setAll, cidVars, busyVars, pullVars, chanVars, condVars, modelVars,
                 bcastVars, lockVars, rwVars, wireX, wireY>>

\* The record is converted back for an index message.
ToInfo ==
  /\ wirePc = 2
  /\ wireY' = fileInfoFromFile(wireF)
  /\ wirePc' = 3
  /\ UNCHANGED <<setAll, cidVars, busyVars, pullVars, chanVars, condVars, modelVars,
                 bcastVars, lockVars, rwVars, wireX, wireF>>

NextWire == ToFile \/ ToInfo

InitWireInputs ==
  /\ InitSet /\ InitCid /\ InitBusy /\ InitPull /\ InitChan /\ InitCond /\ InitModel
  /\ InitBcast /\ InitLocks /\ InitRW
  /\ wireX \in WireInputs
  /\ wireF = zeroFile
  /\ wireY = zeroInfo
  /\ wirePc = 1

SpecWire == InitWireInputs /\ [][NextWire]_vars

\* ------------------------- read/write mode (model.go:98-116, 243-297, 512-525)
\* The peers that send indexes in read/write mode.
RwNodes == {"p", "q"}
B3 == [Size |-> 2, Hash |-> "h3"]

\* What the scanner found at startup: nothing, or the file a at version 1.
LocalScans == {<<>>, <<[Name |-> "a", Version |-> 1, Modified |-> 1, Flags |-> {},
                        Blocks |-> <<B1, B2>>]>>}

\* What the peer announces: the file as the scanner found it, a newer version
\* whose second block differs, or its deletion.
RwWireRecords ==
  {[Name |-> "a", Version |-> 1, Modified |-> 1, Flags |-> {}, Blocks |-> <<B1, B2>>],
   [Name |-> "a", Version |-> VersionCap, Modified |-> 1, Flags |-> {}, Blocks |-> <<B1, B3>>],
   [Name |-> "a", Version |-> VersionCap, Modified |-> 1, Flags |-> FlagDeleted,
    Blocks |-> <<>>]}
RwWireLists == UNION {[1..k -> RwWireRecords] : k \in 0..MaxWireLen}

RwIndex == \E node \in RwNodes : \E ws \in RwWireLists : Ingest("Index", node, ws)

RwIndexUpdate == \E node \in RwNodes : \E ws \in RwWireLists : Ingest("IndexUpdate", node, ws)

\* StartRW that starts over on a second call.
startRWAgain(running, del) ==
  [panicked |-> FALSE, rwRunning |-> TRUE, delete |-> del, loop |-> del]

\* StartRW(del, threads) on a Model whose rwRunning is running.
startRW(running, del) ==
  IF running
    THEN [panicked |-> TRUE, rwRunning |-> running, delete |-> delete, loop |-> FALSE]
    ELSE [panicked |-> FALSE, rwRunning |-> TRUE, delete |-> del, loop |-> del]

StartRW ==
  \E del \in BOOLEAN :
    LET r == startRW(rwRunning, del)
    IN  /\ ~modelLast.panicked
        /\ rwRunning' = r.rwRunning
        /\ delete' = r.delete
        /\ delPc' = IF r.loop THEN "recv" ELSE delPc
        /\ modelLast' = [ModelCalled("StartRW") EXCEPT !.was = rwRunning,
                                                       !.panicked = r.panicked]
        /\ UNCHANGED <<setAll, cidVars, busyVars, pullVars, chanVars, condVars,
                       protoConn, qwork, qinfo, bcastVars, lockVars, wireVars,
                       delFile, dq>>

\* The Model after the scan at startup: the local slot holds what the scanner
\* found, and the directory holds the file the scanner found.
st0 == [files |-> EmptyMap, remoteKey |-> [i \in Slots |-> EmptyMap], allocated |-> {},
        globalAvailability |-> EmptyMap, globalKey |-> EmptyMap, panic |-> FALSE]

InitRWInputs ==
  /\ \E ws \in LocalScans :
        LET st == setLocal(st0, fromWire(ws), <<>>)
        IN  /\ files = st.files
            /\ remoteKey = st.remoteKey
            /\ allocated = st.allocated
            /\ globalAvailability = st.globalAvailability
            /\ globalKey = st.globalKey
            /\ last = [op |-> "SetLocal", cid |-> 0, fs |-> fromWire(ws),
                       panicked |-> FALSE, had |-> {}]
            /\ InitPullWith(IF ws = <<>> THEN Absent ELSE OldContent, FALSE)
  /\ snap = NoSnap
  /\ InitCid /\ InitBusy /\ InitChan /\ InitCond /\ InitModel /\ InitExtra

NextRW ==
  \/ RwIndex \/ RwIndexUpdate \/ QueueContains \/ QueuePut
  \/ Close \/ Request \/ StartRW

SpecRW == InitRWInputs /\ [][NextRW]_vars

\* ------------------------------------------- delete loop (model.go:512-525)
\* A goroutine offers on m.dq the global record of a name that is deleted
\* globally and not locally.
DqSend ==
  \E n \in DOMAIN globalKey :
    /\ ~modelLast.panicked
    /\ rwRunning
    /\ delete
    /\ dq = <<>>
    /\ FlagDeleted \subseteq GetGlobal(cur, n).Flags
    /\ n \in DOMAIN remoteKey[LocalID]
    /\ ~(FlagDeleted \subseteq Get(LocalID, n).Flags)
    /\ dq' = <<GetGlobal(cur, n)>>
    /\ UNCHANGED <<setAll, cidVars, busyVars, pullVars, chanVars, condVars, modelVars,
                   bcastVars, lockVars, wireVars, rwRunning, delete, delPc, delFile>>

\* for file := range m.dq
DeleteRecv ==
  /\ ~modelLast.panicked
  /\ delPc = "recv"
  /\ dq # <<>>
  /\ delFile' = Head(dq)
  /\ dq' = Tail(dq)
  /\ delPc' = "remove"
  /\ UNCHANGED <<setAll, cidVars, busyVars, pullVars, chanVars, condVars, modelVars,
                 bcastVars, lockVars, wireVars, rwRunning, delete>>

\* os.Remove(path); an error is logged and the loop goes on.
DeleteRemove ==
  /\ ~modelLast.panicked
  /\ delPc = "remove"
  /\ disk' = [disk EXCEPT ![realPath(delFile.Name)] = Absent]
  /\ delPc' = "update"
  /\ UNCHANGED <<setAll, cidVars, busyVars, chanVars, condVars, modelVars,
                 bcastVars, lockVars, wireVars, rwRunning, delete, delFile, dq,
                 openFiles, inflight, requestSlots, pullState, pullLast>>

\* m.updateLocal(file): AddLocal of the one record, under fmut.
DeleteUpdate ==
  LET st == addRemote(cur, LocalID, <<delFile>>)
  IN  /\ ~modelLast.panicked
      /\ delPc = "update"
      /\ ~qwork.active
      /\ IF st.panic THEN UNCHANGED setVars ELSE ModelInstall(st)
      /\ modelLast' = [ModelCalled("deleteLoop") EXCEPT !.name = delFile.Name,
                                                        !.panicked = st.panic]
      /\ delPc' = "recv"
      /\ UNCHANGED <<last, snap, cidVars, busyVars, pullVars, chanVars, condVars,
                     protoConn, qwork, qinfo, bcastVars, lockVars, wireVars,
                     rwRunning, delete, delFile, dq>>

NextDelete ==
  \/ RwIndex \/ RwIndexUpdate \/ QueueContains \/ QueuePut \/ Close \/ StartRW
  \/ DqSend \/ DeleteRecv \/ DeleteRemove \/ DeleteUpdate

SpecDelete == InitRWInputs /\ [][NextDelete]_vars

\* ------------------------------------------------- versions near 2^32 - 1
\* The lists a scan or a pull hands to the local slot when the versions in the
\* cluster have reached the top of the uint32 range, and version 0 for a record
\* whose version the caller leaves to the Set.
WrapVersions == {MaxUint32 - w : w \in 0..MaxWrap} \cup {0}
WrapRecords == {Live(n, v) : n \in Names, v \in WrapVersions}
WrapLists == UNION {[1..k -> WrapRecords] : k \in 0..MaxLen}

\* Set.AddLocal with such a list.
AddLocalHigh ==
  /\ ~last.panicked
  /\ \E fs \in WrapLists : Install(addRemote(cur, LocalID, fs), "AddLocal", LocalID, fs)

\* Set.SetLocal with such a list.
SetLocalHigh ==
  /\ ~last.panicked
  /\ \E fs \in WrapLists : \E order \in Orderings(missingKeys(cur, fs)) :
        Install(setLocal(cur, fs, order), "SetLocal", LocalID, fs)

NextWrap == AddLocalHigh \/ SetLocalHigh

SpecWrap == Init /\ [][NextWrap]_vars

\* ------------------------------------ the Model's queue feeding the puller
\* The filler takes a token and then the head of the queue, and the puller
\* receives it: get of the block queue and the case b := <-blocks of the loop.
\* The item is a block to fetch, without blocks to copy; of.done is the item's
\* last mark.
PullTake ==
  /\ pullState = "run"
  /\ requestSlots > 0
  /\ getPc["c1"] \in {"idle", "woken"}
  /\ blocks # <<>>
  /\ LET item == Head(blocks)
         b == [file |-> item.file, copy |-> <<>>, block |-> item.offset + 1]
     IN  \E openFails, asWritten \in BOOLEAN :
            InstallPull(pullBlock([curPull EXCEPT !.requestSlots = @ - 1], b, item.last,
                                  openFails, 0, asWritten, Availability(item.file)))
  /\ blocks' = bqGet(curQ, "c1").blocks
  /\ getPc' = bqGet(curQ, "c1").pc
  /\ qinfo' = Tail(qinfo)
  /\ UNCHANGED <<setAll, extraVars, cidVars, busyVars, chanVars, putSeq, got, getLog,
                 protoConn, qwork, modelLast>>

\* The Model with its puller, up to the first answer to a request; openFiles
\* made or not, as for the puller alone.
InitRequeueInputs ==
  /\ InitSet /\ InitCid /\ InitBusy /\ InitChan /\ InitCond /\ InitModel /\ InitExtra
  /\ \E made \in BOOLEAN : InitPullWith(Absent, made)

NextRequeue ==
  \/ Index \/ IndexUpdate \/ QueueContains \/ QueuePut
  \/ PullerStart \/ PullTake

SpecRequeue == InitRequeueInputs /\ [][NextRequeue]_vars

\* ------------------------------------- one queued file pulled to its end
\* The record a peer has announced for the file.
GateRecord == [Name |-> "a", Version |-> 1, Flags |-> {}, Modified |-> 1, Blocks |-> <<B1, B2>>]

\* The Model in Index(p, [a]), at the inner loop of queueNeededBlocks: slot 1
\* holds the record, and the blocks of a that BlockDiff named are about to be
\* put, the last of them marked.
InitGateInputs ==
  /\ LET st == setRemote(st0, 1, fromWire(<<GateRecord>>))
     IN  /\ files = st.files
         /\ remoteKey = st.remoteKey
         /\ allocated = st.allocated
         /\ globalAvailability = st.globalAvailability
         /\ globalKey = st.globalKey
  /\ last = [op |-> "SetRemote", cid |-> 1, fs |-> fromWire(<<GateRecord>>),
             panicked |-> FALSE, had |-> {}]
  /\ snap = NoSnap
  /\ toCid = [n \in {LocalName, "p"} |-> IF n = LocalName THEN LocalID ELSE 1]
  /\ toName = <<LocalName, "p">>
  /\ cidLast = [op |-> "Get", name |-> "p", ret |-> 1, had |-> FALSE]
  /\ \E need \in BlockDiffNeeds(<<>>, fileFromFileInfo(GateRecord).Blocks) \ {<<>>} :
        qwork = [active |-> TRUE, files |-> <<>>, puts |-> blocksToPut("a", need),
                 suppressed |-> FALSE]
  /\ blocks = <<>>
  /\ qinfo = <<>>
  /\ getPc = [c \in Consumers |-> "idle"]
  /\ putSeq = <<>>
  /\ got = <<>>
  /\ getLog = [c \in Consumers |-> [waited |-> FALSE, putSince |-> FALSE]]
  /\ protoConn = {"p"}
  /\ modelLast = [ModelCalled("contains") EXCEPT !.name = "a"]
  /\ \E held \in {Absent, OldContent} : \E made \in BOOLEAN : InitPullWith(held, made)
  /\ InitBusy /\ InitChan /\ InitExtra

NextGate == QueuePut \/ PullerStart \/ PullTake \/ PullResult

SpecGate == InitGateInputs /\ [][NextGate]_vars

\* ------------------------------------------------------------------- claims
Holders(n) == {i \in Slots : n \in DOMAIN remoteKey[i]}
GivenFor(fs, n) == {fs[i] : i \in {j \in DOMAIN fs : fs[j].Name = n}}
LocalKey(n) == KeyAt(remoteKey[LocalID], n)

\* C1: for every name some slot holds, globalKey[name] is the key of maximum
\* version among the slots' current keys for the name, and the bits of
\* availability[name] are exactly the slots whose current key is globalKey[name].
GlobalIsMax ==
  \A n \in Names :
    Holders(n) # {} =>
      /\ n \in DOMAIN globalKey
      /\ \E i \in Holders(n) : remoteKey[i][n] = globalKey[n]
      /\ \A i \in Holders(n) : ~GtU(remoteKey[i][n].Version, globalKey[n].Version)
      /\ \A i \in Slots :
            HasBit(Availability(n), i) <=> (i \in Holders(n) /\ remoteKey[i][n] = globalKey[n])
      /\ Availability(n) < Bit(MaxSlot + 1)

\* C2: the usage count of every key in files is the number of slots whose current
\* key for the key's name is that key, and files holds no key that no slot holds.
UsageAccounting ==
  /\ \A k \in DOMAIN files :
        /\ files[k].Usage = Cardinality({i \in Slots : KeyAt(remoteKey[i], k.Name) = k})
        /\ files[k].Usage >= 1
  /\ \A i \in Slots : \A n \in DOMAIN remoteKey[i] : remoteKey[i][n] \in DOMAIN files

\* C3: for every slot i, Need(i) is exactly the set of the records files holds
\* under globalKey[n], over the names n of globalKey for which slot i holds no
\* key or a key whose version is strictly less than that of globalKey[n].
NeedSound ==
  \A i \in Slots :
    LET wanted == {n \in DOMAIN globalKey :
                     \/ n \notin DOMAIN remoteKey[i]
                     \/ GtU(globalKey[n].Version, remoteKey[i][n].Version)}
    IN  /\ \A n \in wanted : globalKey[n] \in DOMAIN files
        /\ Need(i) = {files[globalKey[n]].File : n \in wanted}

\* The local slot holds an older key than a remote one: Need(local) is the remote
\* record, and the remote slot needs nothing.
NeedSoundWitness ==
  \E n \in Names :
    /\ n \in DOMAIN remoteKey[LocalID]
    /\ n \in DOMAIN remoteKey[1]
    /\ GtU(remoteKey[1][n].Version, remoteKey[LocalID][n].Version)
    /\ globalKey[n] = remoteKey[1][n]
    /\ Need(LocalID) = {files[remoteKey[1][n]].File}
    /\ Need(1) = {}

\* C4: after SetLocal(list), every name the local slot held before and that is
\* absent from list is held as a record with the deleted flag, no blocks, size 0
\* and the previous local version plus one (of the key or of the record held),
\* and every name in list is held with a record given for it in list.
TombstoneSynthesis ==
  [][(last'.op = "SetLocal" /\ ~last'.panicked) =>
       \A n \in Names :
         LET now == FileAt(files', KeyAt(remoteKey'[LocalID], n))
         IN  /\ (n \in DOMAIN remoteKey[LocalID] /\ n \notin ListNames(last'.fs)) =>
                   /\ n \in DOMAIN remoteKey'[LocalID]
                   /\ now.Flags = FlagDeleted
                   /\ now.Blocks = <<>>
                   /\ now.Size = 0
                   /\ now.Version \in {LocalKey(n).Version + 1,
                                       FileAt(files, LocalKey(n)).Version + 1}
             /\ (n \in ListNames(last'.fs)) =>
                   /\ n \in DOMAIN remoteKey'[LocalID]
                   /\ now \in GivenFor(last'.fs, n)
  ]_vars

\* C5: across SetLocal calls, a name that disappears from the input becomes a
\* deleted record whose local version is strictly greater than before, a deleted
\* name that the input brings back as a live record gets a strictly greater local
\* version again, and the local version of a name never decreases.
LocalDeleteMonotone ==
  [][(last'.op = "SetLocal" /\ ~last'.panicked) =>
       \A n \in DOMAIN remoteKey[LocalID] :
         LET was == remoteKey[LocalID][n]
             wasRec == FileAt(files, was)
             now == KeyAt(remoteKey'[LocalID], n)
             nowRec == FileAt(files', now)
         IN  /\ n \in DOMAIN remoteKey'[LocalID]
             /\ (n \notin ListNames(last'.fs) /\ wasRec.Flags # FlagDeleted) =>
                   (nowRec.Flags = FlagDeleted /\ GtU(now.Version, was.Version))
             /\ (wasRec.Flags = FlagDeleted /\ nowRec.Flags # FlagDeleted) =>
                   GtU(now.Version, was.Version)
             /\ ~GtU(was.Version, now.Version)
  ]_vars

\* C6: after AddLocal, a record given with version 0 is held by the local slot
\* (key and record) with the previous local version of its name plus one, and a
\* record given with a nonzero version with exactly that version.
AddLocalVersioning ==
  [][(last'.op = "AddLocal" /\ ~last'.panicked) =>
       \A i \in DOMAIN last'.fs :
         LET f == last'.fs[i]
             once == \A j \in DOMAIN last'.fs : last'.fs[j].Name = f.Name => j = i
             want == IF f.Version = 0 THEN LocalKey(f.Name).Version + 1 ELSE f.Version
             now == KeyAt(remoteKey'[LocalID], f.Name)
         IN  once => (now.Version = want /\ FileAt(files', now).Version = want)
  ]_vars

\* C7: SetRemote(s, R) on a slot s >= 1 holding nothing, followed by
\* SetRemote(s, nil), leaves globalKey, availability and files as they were before
\* SetRemote(s, R), with bit s in no availability bitset and every key of files
\* held by another slot.
ResetRemoteRestores ==
  [][(/\ snap.on
      /\ last.op = "SetRemote"
      /\ last'.op = "SetRemote"
      /\ last'.cid = last.cid
      /\ last'.fs = <<>>
      /\ ~last'.panicked) =>
       /\ globalKey' = snap.globalKey
       /\ globalAvailability' = snap.globalAvailability
       /\ files' = snap.files
       /\ \A n \in DOMAIN globalAvailability' : ~HasBit(globalAvailability'[n], last'.cid)
       /\ \A k \in DOMAIN files' :
             \E i \in Slots \ {last'.cid} : KeyAt(remoteKey'[i], k.Name) = k
  ]_vars

RemoteKeysVerbatim ==
  [][(last'.op \in {"SetRemote", "AddRemote"} /\ ~last'.panicked) =>
       \A n \in ListNames(last'.fs) :
         KeyAt(remoteKey'[last'.cid], n) \in {keyFor(f) : f \in GivenFor(last'.fs, n)}
  ]_vars

\* C10: SetRemote and AddRemote with slot 0 or a slot above 63 panic and leave
\* files, every slot mapping, globalKey and availability as they were.
SlotOutOfRangePanics ==
  [][(last'.op \in {"SetRemote", "AddRemote"} /\ (last'.cid < 1 \/ last'.cid > MaxCid)) =>
       (last'.panicked /\ UNCHANGED setVars)
  ]_vars

\* SetRemote with the slot above the range panicked on a Set that holds records.
SlotOutOfRangeWitness ==
  /\ last.op = "SetRemote"
  /\ last.cid = MaxCid + 1
  /\ last.fs # <<>>
  /\ last.panicked
  /\ files # EmptyMap
  /\ globalKey # EmptyMap

\* C19: every name the map has assigned is the name of its slot (so Name(Get(n))
\* is n and no two assigned names share a slot), and Get returns the slot now
\* assigned to its name.
CidBijection ==
  /\ \A n \in DOMAIN toCid :
        /\ toCid[n] < Len(toName)
        /\ cmName(curCm, toCid[n]) = n
  /\ \A n, m \in DOMAIN toCid : toCid[n] = toCid[m] => n = m
  /\ cidLast.op = "Get" =>
        /\ cidLast.name \in DOMAIN toCid
        /\ toCid[cidLast.name] = cidLast.ret

\* C20: slot 0 is assigned to "<local>" and to no other name.
LocalSlotReserved ==
  /\ LocalName \in DOMAIN toCid
  /\ toCid[LocalName] = LocalID
  /\ cmName(curCm, LocalID) = LocalName
  /\ \A n \in DOMAIN toCid : n # LocalName => toCid[n] # LocalID

\* C11: when some peer of the outstanding map has its slot's bit set in the
\* bitset, leastBusyNode returns such a peer with the smallest count among them
\* and raises that peer's count, and no other, by one.
LeastBusySelectsHolder ==
  busyLast.op = "leastBusyNode" =>
    LET B == busyLast.availability
        before == busyLast.before
        holders == {n \in DOMAIN before : n \in DOMAIN toCid /\ HasBit(B, toCid[n])}
        sel == busyLast.selected
    IN  holders # {} =>
          /\ sel \in holders
          /\ \A n \in holders : before[sel] <= before[n]
          /\ oustandingPerNode = [before EXCEPT ![sel] = @ + 1]

\* C12: the real path of a file holds nothing, its complete previous content or
\* the complete new content, never anything else; until it holds the new content
\* it holds what it held before the pull, also after a copy or a fetch failed.
TempRenameAtomic ==
  \A n \in Names :
    /\ disk[realPath(n)] \in {Absent, OldContent, NewContent}
    /\ disk[realPath(n)] # NewContent => disk[realPath(n)] = pullLast.was
    /\ pullLast.failed => disk[realPath(n)] = pullLast.was

\* A fetch failed with part of the new content written: the temporary file holds
\* the copied block only, the real path its previous content.
TempRenameAtomicWitness ==
  \E n \in Names :
    /\ pullLast.lost
    /\ pullLast.was = OldContent
    /\ disk[tempPath(n)] = [exists |-> TRUE, data |-> <<OldContent.data[1]>>]
    /\ inflight = {}
    /\ disk[realPath(n)] = OldContent

\* The work items an addition stands for: the copy item with have, then one fetch
\* item per entry of need in order, the last of them marked.
PlanOf(a) ==
  <<[file |-> a.file, block |-> 0, copy |-> a.have, last |-> FALSE]>>
    \o [i \in DOMAIN a.need |->
          [file |-> a.file, block |-> a.need[i], copy |-> <<>>, last |-> i = Len(a.need)]]

RECURSIVE PlanOfAll(_)
PlanOfAll(as) == IF as = <<>> THEN <<>> ELSE PlanOf(Head(as)) \o PlanOfAll(Tail(as))

\* Whether a work item carries the terminal mark.
IsTerminal(item) == "last" \in DOMAIN item /\ item.last

\* C13: the items delivered and still queued are, in the order of the additions,
\* each addition's copy item carrying have and then its fetch items in the order
\* of need, with the terminal mark on the final fetch item of each addition and
\* on no other item.
BlockQueueOrdering ==
  LET all == delivered \o queued
      plan == PlanOfAll(added)
  IN  /\ Len(all) = Len(plan)
      /\ \A i \in DOMAIN all :
            /\ all[i].file = plan[i].file
            /\ all[i].copy = plan[i].copy
            /\ all[i].block = plan[i].block
            /\ IsTerminal(all[i]) = plan[i].last

\* The blocks taken so far, in the order taken.
Taken == [i \in DOMAIN got |-> got[i].block]

\* C14, as claimed: get waits while the queue is empty; the blocks taken followed
\* by the blocks queued are the blocks put, in order (none lost, none twice,
\* first in first out); and every consumer blocked in get is served once a put
\* has followed.
QueueDeliveryToEach ==
  /\ [](Taken \o blocks = putSeq)
  /\ [](\A c \in Consumers : getPc[c] = "wait" => getLog[c].waited)
  /\ \A c \in Consumers :
        (getPc[c] # "idle" /\ getLog[c].putSince) ~> (getPc[c] = "idle")

\* C14, amended: the same order and exactly-once delivery; and while a consumer
\* is in get, a queued block does not stay: some get takes the first block.
QueueDelivery ==
  /\ [](Taken \o blocks = putSeq)
  /\ [](\A c \in Consumers : getPc[c] = "wait" => getLog[c].waited)
  /\ \A n \in 0..MaxPuts :
        (Len(got) = n /\ blocks # <<>> /\ \E c \in Consumers : getPc[c] # "idle")
          ~> (Len(got) > n)

\* A consumer that had waited in get took the first block put; the second block
\* put is still queued.
QueueDeliveryWitness ==
  /\ Len(putSeq) = 2
  /\ Len(got) = 1
  /\ got[1].waited
  /\ got[1].block = putSeq[1]
  /\ blocks = <<putSeq[2]>>

\* C15: need queueing adds no block for a name while the queue holds an
\* undelivered block of that name from an earlier ingest: at every moment, under
\* every interleaving of Index, IndexUpdate and the pullers' get, the queued
\* blocks of one file were all put by one and the same enqueue.
QueueDedup ==
  /\ Len(qinfo) = Len(blocks)
  /\ \A i, j \in DOMAIN blocks :
        blocks[i].file = blocks[j].file => qinfo[i].old = qinfo[j].old

\* A later ingest found the file needed, found a block of an earlier ingest
\* still queued for it, and put nothing.
QueueDedupWitness ==
  /\ modelLast.op = "contains"
  /\ modelLast.skipped
  /\ blocks # <<>>
  /\ blocks[1].file = modelLast.name

\* C16: Request returns ErrNoSuchFile without touching the disk when the local
\* slot has no record of the name or the offset exceeds the local record's size,
\* ErrInvalid when the local record is suppressed, and data only for a name
\* that is in the local index and not suppressed.
RequestRefusal ==
  modelLast.op = "Request" =>
    /\ (~modelLast.had \/ modelLast.offset > modelLast.size) =>
          (modelLast.err = "ErrNoSuchFile" /\ ~modelLast.read)
    /\ (modelLast.had /\ modelLast.offset <= modelLast.size /\ modelLast.suppressed) =>
          modelLast.err = "ErrInvalid"
    /\ modelLast.err = "nil" => (modelLast.had /\ ~modelLast.suppressed)

\* C17: Need(LocalID) returns no record with the suppressed flag set, and no
\* block is queued for such a record.
NeedExcludesInvalid ==
  /\ \A f \in Need(LocalID) : ~f.Suppressed
  /\ \A i \in DOMAIN qinfo : ~qinfo[i].suppressed

\* C18: when Close(node) has returned, node has no connection entry, no slot in
\* the connection-ID map and its slot is free; the Set holds no key for the slot,
\* no availability bitset has the slot's bit, and for every name the global key
\* is the newest key of the remaining slots and the availability bits are the
\* slots holding it.
CloseRemovesPeer ==
  (modelLast.op = "Close" /\ ~modelLast.panicked) =>
    /\ ~ConnectedTo(modelLast.node)
    /\ modelLast.node \notin DOMAIN toCid
    /\ cmName(curCm, modelLast.cid) = ""
    /\ remoteKey[modelLast.cid] = EmptyMap
    /\ \A n \in DOMAIN globalAvailability :
          ~HasBit(globalAvailability[n], modelLast.cid)
    /\ DOMAIN globalAvailability = DOMAIN globalKey
    /\ \A n \in Names :
          /\ n \in DOMAIN globalKey <=> Holders(n) # {}
          /\ n \in DOMAIN globalKey =>
                /\ \E i \in Holders(n) : remoteKey[i][n] = globalKey[n]
                /\ \A i \in Holders(n) : ~newerThan(remoteKey[i][n], globalKey[n])
                /\ \A i \in Slots :
                      HasBit(globalAvailability[n], i) <=>
                        (i \in Holders(n) /\ remoteKey[i][n] = globalKey[n])

\* Close has returned for a connected node whose slot held records, and the
\* global view is left with what the local slot holds.
CloseRemovesPeerWitness ==
  /\ modelLast.op = "Close"
  /\ ~modelLast.panicked
  /\ modelLast.had
  /\ modelLast.was
  /\ globalKey # EmptyMap

\* C21: Get never returns a slot above 63.
CidHardCap == cidLast.op = "Get" => cidLast.ret <= MaxCid

\* The slots no name is assigned to.
Holes(cm) == {c \in 0..(Len(cm.toName) - 1) : c \notin Range(cm.toCid)}

\* C22: a Get for a name that has no slot returns the lowest slot freed by Clear
\* and leaves the slot space as long as it was; it returns a new slot, the next
\* after the last, only when no slot is free; so the slot returned is at most
\* the number of names assigned before the call.
SlotReuse ==
  [][(cidLast'.op = "Get" /\ ~cidLast'.had) =>
       /\ IF Holes(curCm) # {}
            THEN /\ cidLast'.ret \in Holes(curCm)
                 /\ \A c \in Holes(curCm) : cidLast'.ret <= c
                 /\ Len(toName') = Len(toName)
            ELSE /\ cidLast'.ret = Len(toName)
                 /\ Len(toName') = Len(toName) + 1
       /\ cidLast'.ret <= Cardinality(DOMAIN toCid)]_vars

\* The index messages of the loop, delivered or on their way.
LoopMessages(n) ==
  {[gen |-> received[n][i].gen, idx |-> received[n][i].idx] :
     i \in {j \in DOMAIN received[n] : received[n][j].kind = "loop"}}
  \cup {[gen |-> s.gen, idx |-> s.idx] : s \in {t \in sends : t.kind = "loop" /\ t.node = n}}

\* C23: the loop sends only when the counter has moved, one and the same index
\* to the nodes of a round, and begins no round (and does not panic) while a
\* send of the round before is unfinished.
BroadcastGating ==
  /\ bPc # "panic"
  /\ bPc \in {"sleep", "count", "spawn"} => \A s \in sends : s.kind # "loop"
  /\ \A n, m \in DOMAIN received : \A x \in LoopMessages(n) : \A y \in LoopMessages(m) :
        x.gen = y.gen => x.idx = y.idx
  /\ \A n \in DOMAIN received : \A x \in LoopMessages(n) : x.gen # 0

\* C24: the first index message a node gets is the initial index of
\* AddConnection, and no message it gets is older than one it got before.
InitialIndexFirst ==
  \A n \in DOMAIN received :
    /\ received[n] # <<>> => received[n][1].kind = "initial"
    /\ \A i, j \in DOMAIN received[n] : i < j => received[n][i].gen <= received[n][j].gen

\* C25: a flow that holds both locks took pmut first; no flow takes pmut while
\* it holds fmut.
LockOrdering ==
  \A f \in Flows : \A i, j \in DOMAIN locksHeld[f] :
     (locksHeld[f][i][2] = "fmut" /\ locksHeld[f][j][2] = "pmut") => j < i

\* C26: fileFromFileInfo gives each block the sum of the sizes of the blocks
\* before it as its offset and the record the sum of all sizes as its size,
\* and moves the invalid bit into Suppressed; converting back gives the wire
\* record again: name, flags with the invalid bit, modification time,
\* version, block sizes and hashes.
WireRoundTrip ==
  /\ wirePc >= 2 =>
        /\ Len(wireF.Blocks) = Len(wireX.Blocks)
        /\ \A i \in DOMAIN wireF.Blocks :
              wireF.Blocks[i].Offset =
                IF i = 1 THEN 0 ELSE wireF.Blocks[i - 1].Offset + wireX.Blocks[i - 1].Size
        /\ wireF.Size = IF wireX.Blocks = <<>> THEN 0
                        ELSE wireF.Blocks[Len(wireF.Blocks)].Offset
                               + wireX.Blocks[Len(wireX.Blocks)].Size
        /\ wireF.Suppressed = ("invalid" \in wireX.Flags)
        /\ wireF.Flags = wireX.Flags \ {"invalid"}
  /\ wirePc = 3 =>
        /\ wireY.Name = wireX.Name
        /\ wireY.Flags = wireX.Flags
        /\ wireY.Modified = wireX.Modified
        /\ wireY.Version = wireX.Version
        /\ Len(wireY.Blocks) = Len(wireX.Blocks)
        /\ \A i \in DOMAIN wireX.Blocks :
              /\ wireY.Blocks[i].Size = wireX.Blocks[i].Size
              /\ wireY.Blocks[i].Hash = wireX.Blocks[i].Hash

WireRoundTripWitness ==
  /\ wirePc = 3
  /\ "invalid" \in wireX.Flags
  /\ "deleted" \in wireX.Flags
  /\ wireX.Modified = 1
  /\ wireX.Blocks = <<B2, B1>>
  /\ wireF.Suppressed
  /\ wireF.Blocks[2].Offset = 2

\* C27: until StartRW is called no step of a peer callback (Index,
\* IndexUpdate with their queueing, Request, Close) changes the local slot's
\* index or the repository directory; the delete loop runs only once StartRW
\* has allowed deletes; a second StartRW panics.
ReadOnlyMode ==
  [][/\ (~rwRunning /\ ~rwRunning') =>
          /\ Have(LocalID)' = Have(LocalID)
          /\ remoteKey'[LocalID] = remoteKey[LocalID]
          /\ disk' = disk
     /\ delPc' # "none" => (rwRunning' /\ delete')
     /\ (modelLast'.op = "StartRW" /\ modelLast'.was) =>
          (modelLast'.panicked /\ rwRunning' = rwRunning /\ delete' = delete
             /\ delPc' = delPc)]_vars

\* A peer has sent a newer version and asked for a block, the Model still
\* read-only with the local record and the file in place.
ReadOnlyModeWitness ==
  /\ ~rwRunning
  /\ delPc = "none"
  /\ modelLast.op = "Request"
  /\ modelLast.read
  /\ remoteKey[1] # EmptyMap
  /\ "a" \in DOMAIN globalKey
  /\ globalKey["a"].Version = VersionCap
  /\ Get(LocalID, "a").Version = 1
  /\ disk[realPath("a")] = OldContent

\* scanner.BlockDiff(src, tgt): the positions of the blocks of tgt that src
\* lacks, those past the end of src or with another hash than src has there.
BlockDiff(src, tgt) == {i \in DOMAIN tgt : i > Len(src) \/ src[i].Hash # tgt[i].Hash}

\* One fetch item per block of the global record that the local record lacks.
ExpectedItems(n) ==
  LET gf == GetGlobal(cur, n)
  IN  {[offset |-> gf.Blocks[i].Offset, size |-> gf.Blocks[i].Size] :
         i \in BlockDiff(Get(LocalID, n).Blocks, gf.Blocks)}

QueuedFor(n) == {i \in DOMAIN blocks : blocks[i].file = n}
QueuedItems(n) == {[offset |-> blocks[i].offset, size |-> blocks[i].size] : i \in QueuedFor(n)}

\* C28: when an ingest has gone through a needed file that was not in the
\* block queue, the queue holds one fetch item for each block of the global
\* record that the local record lacks, at the block's offset and size in the
\* global record, and nothing else for the file.
NeedQueueing ==
  (/\ modelLast.op = "contains"
   /\ ~modelLast.skipped
   /\ ~qwork.active
   /\ modelLast.name \in {f.Name : f \in NeedOf(cur, LocalID)})
  => /\ QueuedItems(modelLast.name) = ExpectedItems(modelLast.name)
     /\ Cardinality(QueuedFor(modelLast.name)) = Cardinality(ExpectedItems(modelLast.name))

\* The names whose global record is a deleted one while the local slot holds
\* a record that is not.
DeletedGlobally ==
  {n \in DOMAIN globalKey :
     /\ FlagDeleted \subseteq GetGlobal(cur, n).Flags
     /\ n \in DOMAIN remoteKey[LocalID]
     /\ ~(FlagDeleted \subseteq Get(LocalID, n).Flags)}

\* C29: in read/write mode with deletes allowed, when an index ingest has
\* left a name with a deleted global record and a local record that is not
\* deleted, the global record is on the delete channel or with the delete
\* loop.
DeletePropagation ==
  (/\ rwRunning
   /\ delete
   /\ modelLast.op \in {"Index", "IndexUpdate", "contains"}
   /\ ~modelLast.panicked
   /\ ~qwork.active)
  => \A n \in DeletedGlobally :
        \/ dq = <<GetGlobal(cur, n)>>
        \/ (delPc \in {"remove", "update"} /\ delFile = GetGlobal(cur, n))

\* C30: the delete loop unlinks the file before it applies the tombstone;
\* when it has processed an item, Get(local, name) is the deleted record with
\* the item's version, the local slot's bit is set in availability[name] when
\* that record is the global one, and the name is not in Need(local).
DeleteLoopEffect ==
  /\ delPc = "update" => ~disk[realPath(delFile.Name)].exists
  /\ (modelLast.op = "deleteLoop" /\ ~modelLast.panicked) =>
        LET n == delFile.Name
            lf == Get(LocalID, n)
        IN  /\ ~disk[realPath(n)].exists
            /\ FlagDeleted \subseteq lf.Flags
            /\ lf.Version = delFile.Version
            /\ lf.Blocks = <<>>
            /\ (n \in DOMAIN globalKey /\ globalKey[n] = KeyAt(remoteKey[LocalID], n))
                  => HasBit(BitsAt(globalAvailability, n), LocalID)
            /\ n \notin {f.Name : f \in NeedOf(cur, LocalID)}

\* C34: a second AddRemote (or AddLocal) with the slot and list of the call
\* before it leaves files with the usage counts, every slot's keys, globalKey
\* and the availability bitsets as the first call left them.
ReingestIdempotent ==
  [][(/\ last.op \in {"AddRemote", "AddLocal"}
      /\ ~last.panicked
      /\ last'.op = last.op
      /\ last'.cid = last.cid
      /\ last'.fs = last.fs
      /\ ~last'.panicked)
     => UNCHANGED setVars]_vars

\* C35: AddLocal, or AddRemote with a slot in range, on a slot that no
\* SetLocal, SetLocalNoDelete or SetRemote has been applied to returns
\* without a panic, and the slot then holds the names of the list.
AddToFreshSlot ==
  (/\ last.op = "AddLocal" \/ (last.op = "AddRemote" /\ ~badCid(last.cid))
   /\ last.cid \in Slots
   /\ last.cid \notin allocated)
  => /\ ~last.panicked
     /\ ListNames(last.fs) \subseteq DOMAIN remoteKey[last.cid]

\* C36: a second SetLocal with the list of the SetLocal before it leaves
\* files, every slot's keys, globalKey and the availability bitsets
\* unchanged, the versions of the local tombstones included.
RescanIdempotent ==
  [][(/\ last.op = "SetLocal"
      /\ ~last.panicked
      /\ last'.op = "SetLocal"
      /\ last'.fs = last.fs
      /\ ~last'.panicked)
     => UNCHANGED setVars]_vars

\* C40: the version SetLocal gives a tombstone, and the version AddLocal assigns
\* to a record that came with version 0, is greater (as a uint32) than the
\* version the local slot held for the name before, and no slot holds a key
\* with version 0.
VersionsNeverWrap ==
  [][(~last'.panicked) =>
       /\ last'.op = "SetLocal" =>
            \A n \in DOMAIN remoteKey[LocalID] \ ListNames(last'.fs) :
               GtU(remoteKey'[LocalID][n].Version, remoteKey[LocalID][n].Version)
       /\ last'.op = "AddLocal" =>
            \A n \in DOMAIN remoteKey[LocalID] \cap ListNames(last'.fs) :
               (\A i \in DOMAIN last'.fs : last'.fs[i].Name = n => last'.fs[i].Version = 0)
                  => GtU(remoteKey'[LocalID][n].Version, remoteKey[LocalID][n].Version)
       /\ \A i \in Slots : \A n \in DOMAIN remoteKey'[i] : remoteKey'[i][n].Version # 0]_vars

\* C37: while the loop waits, the counter of its WaitGroup is the number of
\* sends of the round that have not returned, so the wait ends exactly when
\* the last of them returns.
RoundTerminates ==
  bPc = "wait" => wg = Cardinality({s \in sends : s.kind = "loop"})

SlotReuseHygiene ==
  (modelLast.op = "Close" /\ ~modelLast.panicked) =>
    /\ remoteKey[modelLast.cid] = EmptyMap
    /\ \A n \in DOMAIN globalAvailability : ~HasBit(globalAvailability[n], modelLast.cid)
    /\ \A k \in DOMAIN files : \E i \in Slots : k \in Range(remoteKey[i])

\* C31: an error recorded for an open file stays recorded and the file's temp
\* is not written again, and when a request for a file is answered with an
\* error the file's entry stays in openFiles with the error recorded.
StickyError ==
  [][/\ \A n \in DOMAIN openFiles.m :
          openFiles.m[n].err =>
            /\ n \in DOMAIN openFiles'.m => openFiles'.m[n].err
            /\ disk'[tempPath(n)] = disk[tempPath(n)]
     /\ (pullLast'.lost /\ ~pullLast.lost) =>
          \A r \in inflight \ inflight' :
             r.file \in DOMAIN openFiles.m =>
               /\ r.file \in DOMAIN openFiles'.m
               /\ openFiles'.m[r.file].err]_vars

\* C32: the entry of a file leaves openFiles only when the queue holds no more
\* items of the file and no request for it is outstanding; and once every
\* item has been put and taken and every request answered without any
\* failure, the entry has left openFiles.
CompletionGating ==
  [][/\ \A n \in DOMAIN openFiles.m :
          n \notin DOMAIN openFiles'.m =>
            /\ ~qwork'.active
            /\ ~bqContains([blocks |-> blocks', pc |-> getPc'], n)
            /\ \A r \in inflight' : r.file # n
     /\ (/\ pullState' \in {"run", "blocked"}
         /\ ~qwork'.active
         /\ blocks' = <<>>
         /\ inflight' = {}
         /\ ~pullLast'.failed)
          => openFiles'.m = EmptyMap]_vars

\* C33: oustandingPerNode has counters for peers only, none of them negative,
\* and while a request is outstanding some peer's counter stands above zero.
OutstandingAccounting ==
  /\ DOMAIN oustandingPerNode \subseteq PullNodes
  /\ \A n \in DOMAIN oustandingPerNode : oustandingPerNode[n] >= 0
  /\ (pullState = "run" /\ inflight # {}) =>
        \E n \in DOMAIN oustandingPerNode : oustandingPerNode[n] > 0

====
